---- MODULE Spec2Model ----
(***************************************************************************)
(* Recommendation engine of the BodyAura backend                           *)
(* (backend/app/services/recommendation_service.py).                       *)
(*                                                                         *)
(* The store is six tables.  A table is a sequence of rows: the order of   *)
(* the sequence is the order in which a query without ORDER BY returns     *)
(* the rows.  A request is executed step by step, one strategy per step.   *)
(*                                                                         *)
(* Numbers: trending_score is a whole number here, the popularity score is *)
(* kept in tenths (12.1 is 121), price in cents (100.00 is 10000), as the   *)
(* catalog stores it with two decimal places.                              *)
(***************************************************************************)
EXTENDS Integers, Sequences, FiniteSets, TLC

VARIABLES
    products,              \* table products
    orders,                \* table orders
    order_items,           \* table order_items
    cart_items,            \* table cart_items
    product_views,         \* table product_views
    product_associations,  \* table product_associations
    default_exclude,       \* the shared default value of exclude_product_ids
    pc,                    \* position of the request being served
    req,                   \* arguments of the request being served
    recommendations,       \* the local list `recommendations`
    contributed,           \* what each strategy returned, by strategy name
    invoked,               \* the strategy calls made, with their arguments
    failed,                \* strategies whose store query raised
    result,                \* the list returned to the caller
    tpc,                   \* position of each track-view request
    treq,                  \* arguments of each track-view request
    current_count,         \* the local `current_count` of each request
    steps,                 \* the store calls each request made, with outcome
    success,               \* what track_product_view returned
    response,              \* what the track-view route answered
    suspended,             \* the locals of a request waiting at an await
    checkout,              \* position and locals of each create_order call
    gateway,               \* the transactions the payment gateway knows
    initializing,          \* the initialize_payment request in flight
    answered,              \* the last verify_payment or webhook request served
    before                 \* the tables as they were at the start

store == <<products, orders, order_items, cart_items, product_views,
           product_associations>>

vars == <<products, orders, order_items, cart_items, product_views,
          product_associations, default_exclude, pc, req, recommendations,
          contributed, invoked, failed, result, tpc, treq, current_count,
          steps, success, response, suspended, checkout, gateway,
          initializing, answered, before>>

\* the state of the track-view requests
tracker == <<tpc, treq, current_count, steps, success, response>>

\* the state of the recommendation request
recommender == <<default_exclude, pc, req, recommendations, contributed,
                 invoked, failed, result, suspended>>

\* the locals of the running recommendation request
locals == [pc |-> pc, req |-> req, recommendations |-> recommendations,
           contributed |-> contributed, invoked |-> invoked,
           failed |-> failed, result |-> result]

\* the state of the order and payment requests
commerce == <<checkout, gateway, initializing, answered, before>>

\* what a step of the recommendation request has no access to
outside == <<tracker, suspended, commerce>>

----------------------------------------------------------------------------
(* Bounds of the model *)

NProducts == 4      \* rows of the products table in the general worlds
MaxLimit == 3       \* largest `limit` a request asks for
MaxFailures == 1    \* store failures injected into one request
QuotaRows == 6      \* rows of the products table in the crowded worlds
SimilarRows == 3    \* rows of the products table in the price worlds
MaxAssoc == 3       \* rows of the product_associations table in the association worlds
NTrackers == 2      \* track-view requests in flight
RankedRows == 4     \* rows of the products table in the ranking worlds

(* Values *)

NoUser == ""        \* user_id None (falsy)
NoCategory == ""    \* category NULL or empty (falsy)
Users == {"u1"}
Trackers == 1..NTrackers
Now == 100          \* day on which the request is served
ThirtyDays == 30

----------------------------------------------------------------------------
(* Sequence helpers: Python list operations *)

Min(a, b) == IF a < b THEN a ELSE b

Range(s) == {s[i] : i \in 1..Len(s)}

\* s[:n + 1]: a slice that keeps one element too many
Take_OffByOne(s, n) == SubSeq(s, 1, Min(n + 1, Len(s)))

\* Python s[:n]
Take(s, n) == SubSeq(s, 1, Min(n, Len(s)))

\* a query's .limit(n)
Limit(rows, n) == SubSeq(rows, 1, Min(n, Len(rows)))

\* [f(x) for x in s]
Ids(s) == [i \in 1..Len(s) |-> s[i].id]

\* a descending sort that puts equal keys in reverse order
SortDescBy_TiesReversed(s, key) ==
    LET n == Len(s)
        Rank(i) == Cardinality({j \in 1..n : s[j][key] > s[i][key]})
                   + Cardinality({j \in (i+1)..n : s[j][key] = s[i][key]})
                   + 1
    IN  [k \in 1..n |-> s[CHOOSE i \in 1..n : Rank(i) = k]]

\* list.sort(key=lambda x: x.get(key, 0), reverse=True): stable, descending;
\* also a query's .order(key, desc=True)
SortDescBy(s, key) ==
    LET n == Len(s)
        Rank(i) == Cardinality({j \in 1..n : s[j][key] > s[i][key]})
                   + Cardinality({j \in 1..(i-1) : s[j][key] = s[i][key]})
                   + 1
    IN  [k \in 1..n |-> s[CHOOSE i \in 1..n : Rank(i) = k]]

----------------------------------------------------------------------------
(* Catalog queries *)

\* the stock filter left out
Eligible_IgnoresStock(p) == p.is_active

\* .eq('is_active', True).gt('stock_quantity', 0)
Eligible(p) == p.is_active /\ p.stock_quantity > 0

\* products of some categories, eligible, minus an exclusion list, ranked by
\* the column `key` and cut to limit (the tail shared by strategies 1, 2 and 3)
category_recommendations(categories, exclude_list, limit, key) ==
    LET recs_query == SelectSeq(products,
                          LAMBDA p : p.category \in categories /\ Eligible(p))
    IN  IF exclude_list # {}
        THEN \* .limit(limit * 3), then filter, sort and cut in Python
             LET fetched == Limit(recs_query, limit * 3)
                 filtered_products ==
                     SelectSeq(fetched, LAMBDA p : p.id \notin exclude_list)
             IN  Take(SortDescBy(filtered_products, key), limit)
        ELSE \* .order(Key, desc=True).limit(limit)
             Limit(SortDescBy(recs_query, key), limit)

\* product ids of the user's completed orders, in order_items order
completed_order_product_ids(user_id) ==
    LET order_ids == {orders[i].id : i \in
                        {j \in 1..Len(orders) :
                            /\ orders[j].user_id = user_id
                            /\ orders[j].payment_status = "completed"}}
        order_items_result ==
            SelectSeq(order_items, LAMBDA it : it.order_id \in order_ids)
    IN  [i \in 1..Len(order_items_result) |-> order_items_result[i].product_id]

\* the category of a product id (the products!inner(category) join)
CategoryOf(product_id) ==
    LET rows == {i \in 1..Len(products) : products[i].id = product_id}
    IN  IF rows = {} THEN NoCategory ELSE products[CHOOSE i \in rows : TRUE].category

\* the purchased ids are not added to the exclusion list
get_purchase_history_recommendations_KeepsPurchased(user_id, limit, exclude_product_ids) ==
    LET purchased_product_ids == Range(completed_order_product_ids(user_id))
        categories == {CategoryOf(id) : id \in purchased_product_ids}
                          \ {NoCategory}
        exclude_list == Range(exclude_product_ids)
    IN  IF purchased_product_ids = {} \/ categories = {}
        THEN <<>>
        ELSE category_recommendations(categories, exclude_list, limit,
                                      "purchase_count")

\* Strategy 1
get_purchase_history_recommendations(user_id, limit, exclude_product_ids) ==
    LET purchased_product_ids == Range(completed_order_product_ids(user_id))
        categories == {CategoryOf(id) : id \in purchased_product_ids}
                          \ {NoCategory}
        exclude_list == Range(exclude_product_ids) \cup purchased_product_ids
    IN  IF purchased_product_ids = {} \/ categories = {}
        THEN <<>>
        ELSE category_recommendations(categories, exclude_list, limit,
                                      "purchase_count")

\* the cart's product ids are not added to the exclusion list
get_cart_based_recommendations_KeepsCart(user_id, limit, exclude_product_ids) ==
    LET cart_result == SelectSeq(cart_items, LAMBDA c : c.user_id = user_id)
        cart_product_ids == {cart_result[i].product_id : i \in 1..Len(cart_result)}
        categories == {CategoryOf(id) : id \in cart_product_ids} \ {NoCategory}
        exclude_list == Range(exclude_product_ids)
    IN  IF Len(cart_result) = 0 \/ categories = {}
        THEN <<>>
        ELSE category_recommendations(categories, exclude_list, limit,
                                      "purchase_count")

\* Strategy 2
get_cart_based_recommendations(user_id, limit, exclude_product_ids) ==
    LET cart_result == SelectSeq(cart_items, LAMBDA c : c.user_id = user_id)
        cart_product_ids == {cart_result[i].product_id : i \in 1..Len(cart_result)}
        categories == {CategoryOf(id) : id \in cart_product_ids} \ {NoCategory}
        exclude_list == Range(exclude_product_ids) \cup cart_product_ids
    IN  IF Len(cart_result) = 0 \/ categories = {}
        THEN <<>>
        ELSE category_recommendations(categories, exclude_list, limit,
                                      "purchase_count")

\* Strategy 3
get_browsing_history_recommendations(user_id, limit, exclude_product_ids) ==
    LET thirty_days_ago == Now - ThirtyDays
        views_result == SelectSeq(product_views,
                            LAMBDA v : /\ v.user_id = user_id
                                       /\ v.viewed_at >= thirty_days_ago)
        viewed_product_ids ==
            {views_result[i].product_id : i \in 1..Len(views_result)}
        categories == {CategoryOf(id) : id \in viewed_product_ids} \ {NoCategory}
        exclude_list == Range(exclude_product_ids) \cup viewed_product_ids
    IN  IF Len(views_result) = 0 \/ categories = {}
        THEN <<>>
        ELSE category_recommendations(categories, exclude_list, limit,
                                      "view_count")

\* no second query when the first one returns no rows
get_collaborative_recommendations_ForwardOnly(user_id, limit, exclude_product_ids) ==
    LET user_product_ids == Range(completed_order_product_ids(user_id))
        forward == Limit(SortDescBy(
                       SelectSeq(product_associations,
                           LAMBDA a : a.product_a_id \in user_product_ids),
                       "association_count"), limit * 2)
        candidates == {forward[i].product_b_id : i \in 1..Len(forward)}
        exclude_list == Range(exclude_product_ids) \cup user_product_ids
        recommended_product_ids == candidates \ exclude_list
    IN  IF user_product_ids = {} \/ recommended_product_ids = {}
        THEN <<>>
        ELSE Limit(SelectSeq(products,
                      LAMBDA p : p.id \in recommended_product_ids /\ Eligible(p)),
                  limit)

\* only the purchased ids are excluded, not the caller's list
get_collaborative_recommendations_IgnoresCaller(user_id, limit, exclude_product_ids) ==
    LET user_product_ids == Range(completed_order_product_ids(user_id))
        forward == Limit(SortDescBy(
                       SelectSeq(product_associations,
                           LAMBDA a : a.product_a_id \in user_product_ids),
                       "association_count"), limit * 2)
        reverse == Limit(SortDescBy(
                       SelectSeq(product_associations,
                           LAMBDA a : a.product_b_id \in user_product_ids),
                       "association_count"), limit * 2)
        candidates == IF Len(forward) = 0
                      THEN {reverse[i].product_a_id : i \in 1..Len(reverse)}
                      ELSE {forward[i].product_b_id : i \in 1..Len(forward)}
        recommended_product_ids == candidates \ user_product_ids
    IN  IF user_product_ids = {} \/ recommended_product_ids = {}
        THEN <<>>
        ELSE Limit(SelectSeq(products,
                      LAMBDA p : p.id \in recommended_product_ids /\ Eligible(p)),
                  limit)

\* Strategy 4
get_collaborative_recommendations(user_id, limit, exclude_product_ids) ==
    LET user_product_ids == Range(completed_order_product_ids(user_id))
        forward == Limit(SortDescBy(
                       SelectSeq(product_associations,
                           LAMBDA a : a.product_a_id \in user_product_ids),
                       "association_count"), limit * 2)
        reverse == Limit(SortDescBy(
                       SelectSeq(product_associations,
                           LAMBDA a : a.product_b_id \in user_product_ids),
                       "association_count"), limit * 2)
        candidates == IF Len(forward) = 0
                      THEN {reverse[i].product_a_id : i \in 1..Len(reverse)}
                      ELSE {forward[i].product_b_id : i \in 1..Len(forward)}
        exclude_list == Range(exclude_product_ids) \cup user_product_ids
        recommended_product_ids == candidates \ exclude_list
    IN  IF user_product_ids = {} \/ recommended_product_ids = {}
        THEN <<>>
        ELSE Limit(SelectSeq(products,
                      LAMBDA p : p.id \in recommended_product_ids /\ Eligible(p)),
                  limit)

\* the weights of purchases and views swapped
popularity_WeightsSwapped(p) ==
    p.trending_score * 10 + p.purchase_count + p.view_count * 100

\* Popularity score in tenths:
\* trending_score * 1.0 + purchase_count * 10.0 + view_count * 0.1
popularity(p) == p.trending_score * 10 + p.purchase_count * 100 + p.view_count

\* the exclusion filter left out
get_trending_products_Unfiltered(limit, exclude_product_ids) ==
    LET query == SelectSeq(products, Eligible)
        fetch_limit == IF Len(exclude_product_ids) > 0 THEN limit * 5 ELSE limit * 2
        scored == [i \in 1..Len(Limit(query, fetch_limit)) |->
                     [score |-> popularity(Limit(query, fetch_limit)[i]),
                      row |-> Limit(query, fetch_limit)[i]]]
        top == Take(SortDescBy(scored, "score"), limit)
    IN  [i \in 1..Len(top) |-> top[i].row]

\* Strategy 5
get_trending_products(limit, exclude_product_ids) ==
    LET query == SelectSeq(products, Eligible)
        fetch_limit == IF Len(exclude_product_ids) > 0 THEN limit * 5 ELSE limit * 2
        fetched == Limit(query, fetch_limit)
        exclude_set == Range(exclude_product_ids)
        kept == SelectSeq(fetched, LAMBDA p : p.id \notin exclude_set)
        \* product['_popularity_score'] = popularity
        scored == [i \in 1..Len(kept) |->
                     [f \in DOMAIN kept[i] \cup {"_popularity_score"} |->
                         IF f = "_popularity_score" THEN popularity(kept[i])
                         ELSE kept[i][f]]]
        top == Take(SortDescBy(scored, "_popularity_score"), limit)
    IN  \* del product['_popularity_score']
        [i \in 1..Len(top) |->
            [f \in DOMAIN top[i] \ {"_popularity_score"} |-> top[i][f]]]

\* Source prices p (in cents, below 10.00) for which the double product
\* float(p) * 0.7 lies above the exact 0.7p, and those for which float(p) * 1.3
\* lies below the exact 1.3p, among the p whose exact product is a whole
\* number of cents.  For 100.00 both products are exact (70.0 and 130.0).
RoundsAbove07 == {830}
RoundsBelow13 == {70, 140, 190, 230, 280, 380, 460, 560, 760, 870, 920}

\* smallest price in cents that .gte('price', price * 0.7) accepts
price_min(price) ==
    LET q == (7 * price) \div 10
    IN  IF 10 * q = 7 * price /\ price \notin RoundsAbove07 THEN q ELSE q + 1

\* largest price in cents that .lte('price', price * 1.3) accepts
price_max(price) ==
    LET q == (13 * price) \div 10
    IN  IF 10 * q = 13 * price /\ price \in RoundsBelow13 THEN q - 1 ELSE q

\* the source product is not taken out
get_similar_products_KeepsSource(product_id, limit) ==
    LET source_rows == SelectSeq(products, LAMBDA p : p.id = product_id)
    IN  IF Len(source_rows) = 0 \/ source_rows[1].category = NoCategory
        THEN <<>>
        ELSE Limit(SortDescBy(
                 SelectSeq(products,
                     LAMBDA p : /\ p.category = source_rows[1].category
                                /\ Eligible(p)
                                /\ p.price >= price_min(source_rows[1].price)
                                /\ p.price <= price_max(source_rows[1].price)),
                 "purchase_count"), limit)

\* get_similar_products: same category, price within +/-30%, not the source
get_similar_products(product_id, limit) ==
    LET source_rows == SelectSeq(products, LAMBDA p : p.id = product_id)
    IN  IF Len(source_rows) = 0
        THEN <<>>      \* .single() finds no row
        ELSE LET source_product == source_rows[1]
                 category == source_product.category
                 price == source_product.price
                 similar_query ==
                     SelectSeq(products,
                         LAMBDA p : /\ p.category = category
                                    /\ Eligible(p)
                                    /\ p.id # product_id
                                    /\ p.price >= price_min(price)
                                    /\ p.price <= price_max(price))
             IN  IF category = NoCategory
                 THEN <<>>
                 ELSE Limit(SortDescBy(similar_query, "purchase_count"), limit)

\* the two association queries without .order(...).limit(limit)
fbt_product_ids_Unranked(product_id, limit) ==
    {a.product_b_id : a \in {x \in Range(product_associations) :
                                x.product_a_id = product_id}}
        \cup {a.product_a_id : a \in {x \in Range(product_associations) :
                                         x.product_b_id = product_id}}

\* get_frequently_bought_together, up to the choice list(set(ids))[:limit] makes
fbt_product_ids(product_id, limit) ==
    LET forward == Limit(SortDescBy(
                       SelectSeq(product_associations,
                           LAMBDA a : a.product_a_id = product_id),
                       "association_count"), limit)
        reverse == Limit(SortDescBy(
                       SelectSeq(product_associations,
                           LAMBDA a : a.product_b_id = product_id),
                       "association_count"), limit)
    IN  {forward[i].product_b_id : i \in 1..Len(forward)}
            \cup {reverse[i].product_a_id : i \in 1..Len(reverse)}

\* the product rows returned for the ids kept by list(set(ids))[:limit]
fbt_products(kept_ids) ==
    IF kept_ids = {}
    THEN <<>>
    ELSE SelectSeq(products, LAMBDA p : p.id \in kept_ids /\ Eligible(p))

----------------------------------------------------------------------------
(* The stores a request is served from *)

Kinds == {"ok", "inactive", "nostock"}

\* (purchase_count, view_count, trending_score) of a row; the popularity
\* scores are 10.0, 10.0, 12.5 and 0.0
SignalTable ==
    << [purchase_count |-> 1, view_count |-> 0,  trending_score |-> 0],
       [purchase_count |-> 0, view_count |-> 30, trending_score |-> 7],
       [purchase_count |-> 0, view_count |-> 5,  trending_score |-> 12],
       [purchase_count |-> 0, view_count |-> 0,  trending_score |-> 0] >>

SignalOf(i, rot) == SignalTable[((i + rot) % Len(SignalTable)) + 1]

Row(id, category, price, kind, signal) ==
    [id |-> id, category |-> category, price |-> price,
     stock_quantity |-> IF kind = "nostock" THEN 0 ELSE 5,
     is_active |-> kind # "inactive",
     purchase_count |-> signal.purchase_count,
     view_count |-> signal.view_count,
     trending_score |-> signal.trending_score]

ProductIds == {products[i].id : i \in 1..Len(products)}

\* ids no row has, and the product_id of a request that names none
NoProduct == 0 - 1
MissingIds == {0}

\* caller-supplied exclusion lists: one id (twice) and an id no row has,
\* two ids, every row but the last
ExclusionLists ==
    { <<1, 0, 1>>, <<2, 3>>, [i \in 1..(Len(products) - 1) |-> products[i].id] }

NoActivity ==
    /\ orders = <<>>
    /\ order_items = <<>>
    /\ cart_items = <<>>
    /\ product_views = <<>>
    /\ product_associations = <<>>

\* Catalog worlds: every mix of active/inactive/out-of-stock rows, the
\* signals rotated over the rows, nobody has done anything yet
InitCatalog ==
    /\ \E kind \in [1..NProducts -> Kinds], rot \in 0..(Len(SignalTable) - 1) :
         products = [i \in 1..NProducts |->
                        Row(i, "soap", 10000, kind[i], SignalOf(i, rot))]
    /\ NoActivity

\* Crowded world: more eligible rows than one fetch of the trending
\* strategy reads
InitCrowded ==
    /\ products = [i \in 1..QuotaRows |-> Row(i, "soap", 10000, "ok", SignalOf(i, 0))]
    /\ NoActivity

CatalogLayouts ==
    { [i \in 1..NProducts |-> Row(i, "soap", 10000, "ok", SignalOf(i, 0))],
      [i \in 1..NProducts |->
          Row(i, IF i % 2 = 1 THEN "soap" ELSE "vitamins", 10000,
              IF i = 3 THEN "inactive" ELSE "ok", SignalOf(i, 1))],
      [i \in 1..NProducts |->
          Row(i, IF i = 1 THEN NoCategory ELSE IF i <= 3 THEN "vitamins" ELSE "soap",
              10000, IF i = 2 THEN "nostock" ELSE "ok", SignalOf(i, 2))] }

Order(id, user_id, payment_status) ==
    [id |-> id, user_id |-> user_id, payment_status |-> payment_status]

Item(order_id, product_id) == [order_id |-> order_id, product_id |-> product_id]

\* (orders, order_items): no completed order; one with product 1; one with
\* products 1 and 3.  Order 2 is pending and holds product 4.
PurchaseLayouts ==
    { << <<Order(2, "u1", "pending")>>, <<Item(2, 4)>> >>,
      << <<Order(1, "u1", "completed"), Order(2, "u1", "pending")>>,
         <<Item(1, 1), Item(2, 4)>> >>,
      << <<Order(1, "u1", "completed"), Order(3, "u2", "completed")>>,
         <<Item(1, 1), Item(3, 2), Item(1, 3)>> >> }

CartItem(user_id, product_id) == [user_id |-> user_id, product_id |-> product_id]

CartLayouts ==
    { <<>>,
      <<CartItem("u1", 2), CartItem("u2", 4)>>,
      <<CartItem("u1", 3), CartItem("u1", 1)>> }

View(user_id, product_id, viewed_at) ==
    [user_id |-> user_id, product_id |-> product_id, viewed_at |-> viewed_at]

ViewLayouts ==
    { <<>>,
      <<View("u1", 4, Now - 5)>>,
      <<View("u1", 3, Now - 40), View("u1", 2, Now - 1), View("u2", 1, Now)>> }

Assoc(a, b, n) == [product_a_id |-> a, product_b_id |-> b, association_count |-> n]

AssocLayouts ==
    { <<>>,
      <<Assoc(1, 2, 5), Assoc(1, 4, 9)>>,
      <<Assoc(3, 1, 7), Assoc(2, 4, 3)>>,
      <<Assoc(1, 3, 2), Assoc(4, 1, 8), Assoc(2, 1, 8), Assoc(1, 2, 2)>> }

\* Association rows around product 1, in both orientations, with ties
AssocPool ==
    { Assoc(ab[1], ab[2], n) :
        ab \in { <<1, 2>>, <<1, 3>>, <<1, 4>>, <<2, 1>>, <<3, 1>>, <<2, 3>> },
        n \in {1, 2} }

\* tables of up to MaxAssoc rows, one row per ordered pair
AssocTables ==
    { t \in UNION { [1..n -> AssocPool] : n \in 0..MaxAssoc } :
        \A i, j \in 1..Len(t) :
            i # j => <<t[i].product_a_id, t[i].product_b_id>>
                        # <<t[j].product_a_id, t[j].product_b_id>> }

\* Activity worlds: a user with orders, a cart, views, and associations
InitActivity ==
    /\ products \in CatalogLayouts
    /\ \E purchases \in PurchaseLayouts :
         /\ orders = purchases[1]
         /\ order_items = purchases[2]
    /\ cart_items \in CartLayouts
    /\ product_views \in ViewLayouts
    /\ product_associations \in AssocLayouts

\* the users who place orders, and the payment reference of an order that
\* has none
Shoppers == {"u1", "u2"}
NoReference == <<>>
NoOrder == NoProduct

\* a create_order call that has not started
IdleCheckout ==
    [pc |-> "idle", order_items_data |-> <<>>, total_amount |-> 0,
     order_id |-> NoOrder, i |-> 1, response |-> "pending"]

\* no initialize_payment request in flight
IdleInitialize ==
    [pc |-> "idle", order_id |-> NoOrder, user_id |-> NoUser,
     reference |-> NoReference, response |-> "pending"]

\* no verify_payment or webhook request served yet
NothingAnswered ==
    [op |-> "none", reference |-> NoReference, order_id |-> NoOrder,
     reported |-> "none", response |-> "pending"]

InitRequest ==
    /\ default_exclude = <<>>
    /\ pc = "idle"
    /\ req = [op |-> "none", user_id |-> NoUser, limit |-> 1,
              exclude_product_ids |-> <<>>, product_id |-> NoProduct]
    /\ recommendations = <<>>
    /\ contributed = [n \in {"purchase", "cart", "browse", "collab", "trending"}
                        |-> <<>>]
    /\ invoked = <<>>
    /\ failed = {}
    /\ result = <<>>
    /\ tpc = [t \in Trackers |-> "idle"]
    /\ treq = [t \in Trackers |-> [product_id |-> NoProduct, user_id |-> NoUser]]
    /\ current_count = [t \in Trackers |-> 0]
    /\ steps = [t \in Trackers |-> <<>>]
    /\ success = [t \in Trackers |-> "pending"]
    /\ response = [t \in Trackers |-> "pending"]
    /\ suspended = locals
    /\ checkout = [u \in Shoppers |-> IdleCheckout]
    /\ gateway = <<>>
    /\ initializing = IdleInitialize
    /\ answered = NothingAnswered
    /\ before = [products |-> products, cart_items |-> cart_items]

\* Price worlds: a source product and candidates priced on and next to the
\* edges of its +/-30% window
PurchaseSignal(n) == [purchase_count |-> n, view_count |-> 0, trending_score |-> 0]

CandidateVariants ==
    { [category |-> "soap", kind |-> "ok", signal |-> PurchaseSignal(0)],
      [category |-> "soap", kind |-> "ok", signal |-> PurchaseSignal(1)],
      [category |-> "soap", kind |-> "inactive", signal |-> PurchaseSignal(2)],
      [category |-> "soap", kind |-> "nostock", signal |-> PurchaseSignal(2)],
      [category |-> "vitamins", kind |-> "ok", signal |-> PurchaseSignal(2)],
      [category |-> NoCategory, kind |-> "ok", signal |-> PurchaseSignal(2)] }

\* 100.00 and 0.70
SourcePrices == {10000, 70}

EdgePrices(price) ==
    { (7 * price) \div 10 - 1, (7 * price) \div 10,
      (13 * price) \div 10, (13 * price) \div 10 + 1 }

InitSimilar ==
    /\ \E price \in SourcePrices, category \in {"soap", NoCategory},
          kind \in {"ok", "inactive"} :
         \E variant \in [2..SimilarRows -> CandidateVariants],
            edge \in [2..SimilarRows -> EdgePrices(price)] :
            products = [i \in 1..SimilarRows |->
                          IF i = 1
                          THEN Row(1, category, price, kind, PurchaseSignal(1))
                          ELSE Row(i, variant[i].category, edge[i],
                                   variant[i].kind, variant[i].signal)]
    /\ NoActivity
    /\ InitRequest

\* Association worlds: a catalog with ineligible rows and any association
\* table
InitFbt ==
    /\ products \in CatalogLayouts
    /\ orders = <<>>
    /\ order_items = <<>>
    /\ cart_items = <<>>
    /\ product_views = <<>>
    /\ product_associations \in AssocTables
    /\ InitRequest

\* Ranking worlds: every row carries a purchase_count of its own choice and
\* the view_count that ranks it the other way round; the user has bought,
\* put in the cart and viewed the same products
CountValues == {2, 5, 8}

CountSignal(n) == [purchase_count |-> n, view_count |-> 10 - n, trending_score |-> 0]

\* (category, kind) of row i: one category throughout; the last row
\* inactive; a second category and a row without category; the first row
\* out of stock and the last row in a second category
RankedLayouts ==
    { [i \in 1..RankedRows |-> <<"vitamins", "ok">>],
      [i \in 1..RankedRows |->
          <<"vitamins", IF i = RankedRows THEN "inactive" ELSE "ok">>],
      [i \in 1..RankedRows |->
          <<IF i = 2 THEN "soap" ELSE IF i = 3 THEN NoCategory ELSE "vitamins",
            "ok">>],
      [i \in 1..RankedRows |->
          <<IF i = RankedRows THEN "soap" ELSE "vitamins",
            IF i = 1 THEN "nostock" ELSE "ok">>] }

ActivityLists == { <<>>, <<1>>, <<2>>, <<3>>, <<1, 3>> }

InitRanked ==
    /\ \E count \in [1..RankedRows -> CountValues], layout \in RankedLayouts :
          products = [i \in 1..RankedRows |->
                        Row(i, layout[i][1], 10000, layout[i][2],
                            CountSignal(count[i]))]
    /\ \E ids \in ActivityLists :
          /\ orders = <<Order(1, "u1", "completed"), Order(2, "u1", "pending")>>
          /\ order_items = [i \in 1..Len(ids) |-> Item(1, ids[i])]
                               \o <<Item(2, RankedRows)>>
          /\ cart_items = [i \in 1..Len(ids) |-> CartItem("u1", ids[i])]
          /\ product_views = [i \in 1..Len(ids) |-> View("u1", ids[i], Now - 1)]
                                 \o <<View("u1", RankedRows, Now - 40)>>
    /\ product_associations \in AssocLayouts

\* Five eligible rows with popularity 12.1, 30.0, 5.5, 30.0 and 8.0
TiedSignals ==
    << [purchase_count |-> 1, view_count |-> 21, trending_score |-> 0],
       [purchase_count |-> 3, view_count |-> 0,  trending_score |-> 0],
       [purchase_count |-> 0, view_count |-> 55, trending_score |-> 0],
       [purchase_count |-> 0, view_count |-> 0,  trending_score |-> 30],
       [purchase_count |-> 0, view_count |-> 0,  trending_score |-> 8] >>

InitTied ==
    /\ products = [i \in 1..Len(TiedSignals) |->
                     Row(i, "vitamins", 10000, "ok", TiedSignals[i])]
    /\ NoActivity

InitStrategy == (InitRanked \/ InitTied) /\ InitRequest

Init == (InitCatalog \/ InitCrowded \/ InitActivity \/ InitTied) /\ InitRequest

----------------------------------------------------------------------------
(* get_personalized_recommendations, one strategy per step *)

\* only the caller's list is passed on
strategy_exclusions_CallerOnly(exclude_product_ids, recs) == exclude_product_ids

\* exclude_product_ids + [p['id'] for p in recommendations]
strategy_exclusions(exclude_product_ids, recs) == exclude_product_ids \o Ids(recs)

\* every strategy is handed the whole limit
strategy_quota_Whole(limit, recs) == limit

\* limit - len(recommendations)
strategy_quota(limit, recs) == limit - Len(recs)

\* `if len(recommendations) < limit:` in front of strategies 2 to 5
under_filled(recs, limit) == Len(recs) < limit

\* the except clause left out: the failure reaches the aggregator
caught_Reraises(fail, recs) == [raised |-> fail, recs |-> IF fail THEN <<>> ELSE recs]

\* try: ... except Exception as e: logger.error(...); return []
\* a strategy whose store query raised returns [] and raises nothing itself
caught(fail, recs) == [raised |-> FALSE, recs |-> IF fail THEN <<>> ELSE recs]

\* a store query of the strategy may raise
Outcomes == {fail \in BOOLEAN : fail => Cardinality(failed) < MaxFailures}

\* the new list is put in front of the accumulated one
Extend_InFront(name, quota, exclusions, outcome, fail, next) ==
    /\ recommendations' = outcome.recs \o recommendations
    /\ contributed' = [contributed EXCEPT ![name] = outcome.recs]
    /\ invoked' = Append(invoked, [name |-> name, limit |-> quota,
                                   exclude_product_ids |-> exclusions])
    /\ failed' = IF fail THEN failed \cup {name} ELSE failed
    /\ pc' = IF under_filled(recommendations', req.limit) THEN next ELSE "return"
    /\ UNCHANGED <<store, default_exclude, outside, req, result>>

\* a failing strategy ends the chain
Extend_FailureEndsChain(name, quota, exclusions, outcome, fail, next) ==
    /\ recommendations' = recommendations \o outcome.recs
    /\ contributed' = [contributed EXCEPT ![name] = outcome.recs]
    /\ invoked' = Append(invoked, [name |-> name, limit |-> quota,
                                   exclude_product_ids |-> exclusions])
    /\ failed' = IF fail THEN failed \cup {name} ELSE failed
    /\ pc' = IF under_filled(recommendations', req.limit) /\ ~fail
             THEN next ELSE "return"
    /\ UNCHANGED <<store, default_exclude, outside, req, result>>

\* the ids are appended to the caller's list in place
\* (exclude_product_ids += [...]), which is the shared default when the
\* caller passed none
Extend_ExtendsInPlace(name, quota, exclusions, outcome, fail, next) ==
    /\ recommendations' = recommendations \o outcome.recs
    /\ contributed' = [contributed EXCEPT ![name] = outcome.recs]
    /\ invoked' = Append(invoked, [name |-> name, limit |-> quota,
                                   exclude_product_ids |-> exclusions])
    /\ failed' = IF fail THEN failed \cup {name} ELSE failed
    /\ pc' = IF under_filled(recommendations', req.limit) THEN next ELSE "return"
    /\ default_exclude' = IF req.exclude_product_ids = default_exclude
                          THEN default_exclude \o Ids(outcome.recs)
                          ELSE default_exclude
    /\ UNCHANGED <<store, outside, req, result>>

\* One strategy call: the call is recorded, its list is appended
\* (recommendations.extend(recs)), and control moves to the next `if`
Extend(name, quota, exclusions, outcome, fail, next) ==
    /\ recommendations' = IF outcome.raised THEN recommendations
                          ELSE recommendations \o outcome.recs
    /\ contributed' = [contributed EXCEPT ![name] = outcome.recs]
    /\ invoked' = Append(invoked, [name |-> name, limit |-> quota,
                                   exclude_product_ids |-> exclusions])
    /\ failed' = IF fail THEN failed \cup {name} ELSE failed
    /\ pc' = IF outcome.raised THEN "raised"
             ELSE IF under_filled(recommendations', req.limit) THEN next
             ELSE "return"
    /\ UNCHANGED <<store, default_exclude, outside, req, result>>

CallPersonalized ==
    /\ pc = "idle"
    /\ \E user_id \in Users \cup {NoUser}, limit \in 1..MaxLimit,
          exclude_product_ids \in ExclusionLists \cup {default_exclude} :
            /\ req' = [op |-> "personalized", user_id |-> user_id,
                       limit |-> limit,
                       exclude_product_ids |-> exclude_product_ids,
                       product_id |-> NoProduct]
            /\ pc' = IF user_id # NoUser THEN "purchase"
                     ELSE IF under_filled(<<>>, limit) THEN "trending"
                     ELSE "return"
    /\ recommendations' = <<>>
    /\ UNCHANGED <<store, default_exclude, outside, contributed, invoked, failed, result>>

RunPurchaseHistory ==
    /\ pc = "purchase"
    /\ \E fail \in Outcomes :
         LET quota == req.limit
             exclusions == req.exclude_product_ids
         IN  Extend("purchase", quota, exclusions,
                    caught(fail, get_purchase_history_recommendations(
                             req.user_id, quota, exclusions)),
                    fail, "cart")

RunCartBased ==
    /\ pc = "cart"
    /\ \E fail \in Outcomes :
         LET quota == strategy_quota(req.limit, recommendations)
             exclusions == strategy_exclusions(req.exclude_product_ids,
                                               recommendations)
         IN  Extend("cart", quota, exclusions,
                    caught(fail, get_cart_based_recommendations(
                             req.user_id, quota, exclusions)),
                    fail, "browse")

RunBrowsingHistory ==
    /\ pc = "browse"
    /\ \E fail \in Outcomes :
         LET quota == strategy_quota(req.limit, recommendations)
             exclusions == strategy_exclusions(req.exclude_product_ids,
                                               recommendations)
         IN  Extend("browse", quota, exclusions,
                    caught(fail, get_browsing_history_recommendations(
                             req.user_id, quota, exclusions)),
                    fail, "collab")

RunCollaborative ==
    /\ pc = "collab"
    /\ \E fail \in Outcomes :
         LET quota == strategy_quota(req.limit, recommendations)
             exclusions == strategy_exclusions(req.exclude_product_ids,
                                               recommendations)
         IN  Extend("collab", quota, exclusions,
                    caught(fail, get_collaborative_recommendations(
                             req.user_id, quota, exclusions)),
                    fail, "trending")

\* the computed score is written back to the rows that are returned
RunTrending_PersistsScore ==
    /\ pc = "trending"
    /\ LET quota == strategy_quota(req.limit, recommendations)
           exclusions == strategy_exclusions(req.exclude_product_ids,
                                             recommendations)
           recs == get_trending_products(quota, exclusions)
       IN  /\ recommendations' = recommendations \o recs
           /\ contributed' = [contributed EXCEPT !["trending"] = recs]
           /\ invoked' = Append(invoked, [name |-> "trending", limit |-> quota,
                                          exclude_product_ids |-> exclusions])
           /\ products' = [i \in 1..Len(products) |->
                             IF products[i] \in Range(recs)
                             THEN [products[i] EXCEPT
                                      !.trending_score = popularity(products[i]) + 1]
                             ELSE products[i]]
    /\ pc' = "return"
    /\ UNCHANGED <<orders, order_items, cart_items, product_views,
                   product_associations, default_exclude, outside, req, failed, result>>

RunTrending ==
    /\ pc = "trending"
    /\ \E fail \in Outcomes :
         LET quota == strategy_quota(req.limit, recommendations)
             exclusions == strategy_exclusions(req.exclude_product_ids,
                                               recommendations)
         IN  Extend("trending", quota, exclusions,
                    caught(fail, get_trending_products(quota, exclusions)),
                    fail, "return")

\* return recommendations[:limit]
ReturnRecommendations ==
    /\ pc = "return"
    /\ result' = Take(recommendations, req.limit)
    /\ pc' = "done"
    /\ UNCHANGED <<store, default_exclude, outside, req, recommendations, contributed,
                   invoked, failed>>

----------------------------------------------------------------------------
(* The two related read-only queries, each served in one step *)

CallSimilar ==
    /\ pc = "idle"
    /\ \E product_id \in ProductIds \cup MissingIds, limit \in 1..MaxLimit,
          fail \in BOOLEAN :
            /\ req' = [op |-> "similar", user_id |-> NoUser, limit |-> limit,
                       exclude_product_ids |-> <<>>, product_id |-> product_id]
            /\ result' = IF fail THEN <<>>
                         ELSE get_similar_products(product_id, limit)
            /\ failed' = IF fail THEN {"similar"} ELSE {}
    /\ pc' = "done"
    /\ UNCHANGED <<store, default_exclude, outside, recommendations, contributed, invoked>>

CallFrequentlyBoughtTogether ==
    /\ pc = "idle"
    /\ \E product_id \in ProductIds \cup MissingIds, limit \in 1..MaxLimit,
          fail \in BOOLEAN :
            /\ req' = [op |-> "fbt", user_id |-> NoUser, limit |-> limit,
                       exclude_product_ids |-> <<>>, product_id |-> product_id]
            /\ failed' = IF fail THEN {"fbt"} ELSE {}
            /\ IF fail
               THEN result' = <<>>
               ELSE LET ids == fbt_product_ids(product_id, limit)
                    IN  \* list(set(product_ids))[:limit] keeps any `limit` ids
                        \E kept_ids \in SUBSET ids :
                            /\ Cardinality(kept_ids) = Min(limit, Cardinality(ids))
                            /\ result' = fbt_products(kept_ids)
    /\ pc' = "done"
    /\ UNCHANGED <<store, default_exclude, outside, recommendations, contributed, invoked>>

----------------------------------------------------------------------------
(* The five strategies called on their own, with a quota and an exclusion
   list of the caller's choice *)

Quotas == 1..MaxLimit

CallerLists == ExclusionLists \cup {<<>>}

\* the call is answered with `recs`, or with [] when a store query raised
Answer(name, user_id, limit, exclude_product_ids, fail, recs) ==
    /\ pc = "idle"
    /\ req' = [op |-> name, user_id |-> user_id, limit |-> limit,
               exclude_product_ids |-> exclude_product_ids,
               product_id |-> NoProduct]
    /\ result' = caught(fail, recs).recs
    /\ failed' = IF fail THEN {name} ELSE {}
    /\ pc' = "done"
    /\ UNCHANGED <<store, default_exclude, outside, recommendations,
                   contributed, invoked>>

CallPurchaseHistory ==
    \E user_id \in Users, limit \in Quotas, exclude \in CallerLists,
       fail \in BOOLEAN :
        Answer("purchase", user_id, limit, exclude, fail,
               get_purchase_history_recommendations(user_id, limit, exclude))

CallCartBased ==
    \E user_id \in Users, limit \in Quotas, exclude \in CallerLists,
       fail \in BOOLEAN :
        Answer("cart", user_id, limit, exclude, fail,
               get_cart_based_recommendations(user_id, limit, exclude))

CallBrowsingHistory ==
    \E user_id \in Users, limit \in Quotas, exclude \in CallerLists,
       fail \in BOOLEAN :
        Answer("browse", user_id, limit, exclude, fail,
               get_browsing_history_recommendations(user_id, limit, exclude))

CallCollaborative ==
    \E user_id \in Users, limit \in Quotas, exclude \in CallerLists,
       fail \in BOOLEAN :
        Answer("collab", user_id, limit, exclude, fail,
               get_collaborative_recommendations(user_id, limit, exclude))

CallTrending ==
    \E limit \in Quotas, exclude \in CallerLists, fail \in BOOLEAN :
        Answer("trending", NoUser, limit, exclude, fail,
               get_trending_products(limit, exclude))

----------------------------------------------------------------------------
(* track_product_view behind POST /products/{id}/track-view, one store call
   per step; requests of different workers interleave between store calls *)

ViewedIds == {1, 2} \cup MissingIds

\* the outer handler left out: the exception reaches the caller
except_Exception_Reraises == "raised"

\* except Exception as e: logger.error(...); return False
except_Exception == "False"

\* product_views.product_id references products(id): the insert of a view of
\* a product that is not in the catalog is rejected
insert_raises(product_id, fail) ==
    fail \/ product_id \notin Range(Ids(products))

\* products SET view_count = n WHERE id = product_id
set_view_count(product_id, n) ==
    [i \in 1..Len(products) |->
        IF products[i].id = product_id
        THEN [products[i] EXCEPT !.view_count = n]
        ELSE products[i]]

\* increment_view_count(product_uuid): view_count = view_count + 1, atomic
increment_view_count(product_id) ==
    [i \in 1..Len(products) |->
        IF products[i].id = product_id
        THEN [products[i] EXCEPT !.view_count = @ + 1]
        ELSE products[i]]

Log(t, step) == steps' = [steps EXCEPT ![t] = Append(@, step)]

\* the exception of a store call inside the outer try ends the call
Failed(t) ==
    /\ success' = [success EXCEPT ![t] = except_Exception]
    /\ tpc' = [tpc EXCEPT ![t] = "route"]

\* the route calls the service
TrackView(t) ==
    /\ tpc[t] = "idle"
    /\ \E product_id \in ViewedIds, user_id \in Users \cup {NoUser} :
         treq' = [treq EXCEPT ![t] = [product_id |-> product_id,
                                      user_id |-> user_id]]
    /\ tpc' = [tpc EXCEPT ![t] = "insert"]
    /\ UNCHANGED <<store, recommender, commerce, current_count, steps, success, response>>

\* db.table('product_views').insert(view_data).execute()
InsertView(t) ==
    /\ tpc[t] = "insert"
    /\ \E fail \in BOOLEAN :
         IF insert_raises(treq[t].product_id, fail)
         THEN /\ Log(t, "insert_failed")
              /\ Failed(t)
              /\ UNCHANGED product_views
         ELSE /\ Log(t, "insert_ok")
              /\ product_views' = Append(product_views,
                                         View(treq[t].user_id,
                                              treq[t].product_id, Now))
              /\ tpc' = [tpc EXCEPT ![t] = "rpc"]
              /\ UNCHANGED success
    /\ UNCHANGED <<products, orders, order_items, cart_items,
                   product_associations, recommender, commerce, treq, current_count,
                   response>>

\* db.rpc('increment_view_count', ...).execute(); a failure enters the bare
\* `except:`; otherwise the call returns True
IncrementRpc(t) ==
    /\ tpc[t] = "rpc"
    /\ \E fail \in BOOLEAN :
         IF fail
         THEN /\ Log(t, "rpc_failed")
              /\ tpc' = [tpc EXCEPT ![t] = "fetch"]
              /\ UNCHANGED <<products, success>>
         ELSE /\ Log(t, "rpc_ok")
              /\ products' = increment_view_count(treq[t].product_id)
              /\ success' = [success EXCEPT ![t] = "True"]
              /\ tpc' = [tpc EXCEPT ![t] = "route"]
    /\ UNCHANGED <<orders, order_items, cart_items, product_views,
                   product_associations, recommender, commerce, treq, current_count,
                   response>>

\* product = db.table('products').select('view_count').eq(...).single()
\* .execute(); current_count = product.data.get('view_count', 0)
FetchViewCount(t) ==
    /\ tpc[t] = "fetch"
    /\ \E fail \in BOOLEAN :
         IF fail
         THEN /\ Log(t, "fetch_failed")
              /\ Failed(t)
              /\ UNCHANGED current_count
         ELSE /\ Log(t, "fetch_ok")
              /\ \E i \in 1..Len(products) :
                    /\ products[i].id = treq[t].product_id
                    /\ current_count' = [current_count EXCEPT
                                            ![t] = products[i].view_count]
              /\ tpc' = [tpc EXCEPT ![t] = "update"]
              /\ UNCHANGED success
    /\ UNCHANGED <<store, recommender, commerce, treq, response>>

\* db.table('products').update({'view_count': current_count + 1}).eq(...)
\* .execute(); then the call returns True
UpdateViewCount(t) ==
    /\ tpc[t] = "update"
    /\ \E fail \in BOOLEAN :
         IF fail
         THEN /\ Log(t, "update_failed")
              /\ Failed(t)
              /\ UNCHANGED products
         ELSE /\ Log(t, "update_ok")
              /\ products' = set_view_count(treq[t].product_id,
                                            current_count[t] + 1)
              /\ success' = [success EXCEPT ![t] = "True"]
              /\ tpc' = [tpc EXCEPT ![t] = "route"]
    /\ UNCHANGED <<orders, order_items, cart_items, product_views,
                   product_associations, recommender, commerce, treq, current_count,
                   response>>

\* if success: return SuccessResponse(...) else: raise HTTPException(500)
RespondTrackView(t) ==
    /\ tpc[t] = "route"
    /\ response' = [response EXCEPT ![t] =
                      IF success[t] = "True" THEN "SuccessResponse"
                      ELSE "HTTP_500_INTERNAL_SERVER_ERROR"]
    /\ tpc' = [tpc EXCEPT ![t] = "done"]
    /\ UNCHANGED <<store, recommender, commerce, treq, current_count, steps, success>>

----------------------------------------------------------------------------
(* Two recommendation requests on one event loop: at an await the running
   request may be suspended and the waiting one resumed *)

Yield ==
    /\ suspended.pc # "done"
    /\ pc' = suspended.pc
    /\ req' = suspended.req
    /\ recommendations' = suspended.recommendations
    /\ contributed' = suspended.contributed
    /\ invoked' = suspended.invoked
    /\ failed' = suspended.failed
    /\ result' = suspended.result
    /\ suspended' = locals
    /\ UNCHANGED <<store, default_exclude, tracker, commerce>>

----------------------------------------------------------------------------

Next ==
    \/ CallPersonalized
    \/ RunPurchaseHistory
    \/ RunCartBased
    \/ RunBrowsingHistory
    \/ RunCollaborative
    \/ RunTrending
    \/ ReturnRecommendations
    \/ CallSimilar
    \/ CallFrequentlyBoughtTogether

Spec == Init /\ [][Next]_vars

\* get_similar_products on its own, over the price worlds
NextSimilar == CallSimilar

SpecSimilar == InitSimilar /\ [][NextSimilar]_vars

\* get_frequently_bought_together on its own, over the association worlds
NextFbt == CallFrequentlyBoughtTogether

SpecFbt == InitFbt /\ [][NextFbt]_vars

\* the track-view requests, over the catalog layouts
InitTrack ==
    /\ products \in CatalogLayouts
    /\ NoActivity
    /\ InitRequest

NextTrack ==
    \E t \in Trackers :
        \/ TrackView(t)
        \/ InsertView(t)
        \/ IncrementRpc(t)
        \/ FetchViewCount(t)
        \/ UpdateViewCount(t)
        \/ RespondTrackView(t)

SpecTrack == InitTrack /\ [][NextTrack]_vars

\* two interleaved calls of get_personalized_recommendations, for a user
\* with a completed order, two products in the cart, views and associations
InitRequests ==
    /\ products \in CatalogLayouts
    /\ \E purchases \in PurchaseLayouts :
         /\ orders = purchases[1]
         /\ order_items = purchases[2]
         /\ Len(order_items) >= 2
    /\ cart_items = <<CartItem("u1", 3), CartItem("u1", 1)>>
    /\ product_views = <<View("u1", 3, Now - 40), View("u1", 2, Now - 1)>>
    /\ product_associations = <<Assoc(1, 2, 5), Assoc(1, 4, 9)>>
    /\ InitRequest

NextRequests ==
    \/ CallPersonalized
    \/ RunPurchaseHistory
    \/ RunCartBased
    \/ RunBrowsingHistory
    \/ RunCollaborative
    \/ RunTrending
    \/ ReturnRecommendations
    \/ Yield

SpecRequests == InitRequests /\ [][NextRequests]_vars

\* the strategies on their own, over the ranking worlds
NextStrategy ==
    \/ CallPurchaseHistory
    \/ CallCartBased
    \/ CallBrowsingHistory
    \/ CallCollaborative
    \/ CallTrending

SpecStrategy == InitStrategy /\ [][NextStrategy]_vars

----------------------------------------------------------------------------
(* Properties of get_personalized_recommendations *)

\* the request has returned to its caller
Returned == pc = "done" /\ req.op = "personalized"

EligibleIds == {products[i].id : i \in {j \in 1..Len(products) : Eligible(products[j])}}

Chain == <<"purchase", "cart", "browse", "collab", "trending">>

Contributors == {n \in DOMAIN contributed : contributed[n] # <<>>}

\* C1: the returned list holds each product id at most once, also across
\* the lists contributed by different strategies.
C1_NoDuplicates ==
    Returned =>
        \A i, j \in 1..Len(result) : i # j => result[i].id # result[j].id

\* a returned list fed by two strategies, the later one drawing on products
\* the earlier one had already taken
C1_Witness ==
    /\ Returned
    /\ Cardinality(Contributors) >= 2
    /\ \E k \in 2..Len(invoked) :
          /\ contributed[invoked[k].name] # <<>>
          /\ Range(invoked[k].exclude_product_ids) \cap Range(Ids(result)) # {}

\* C2: no product whose id is in the caller's exclusion list is returned.
C2_RespectsExclusions ==
    Returned =>
        \A i \in 1..Len(result) :
            result[i].id \notin Range(req.exclude_product_ids)

\* a non-empty returned list although an eligible product was excluded
C2_Witness ==
    /\ Returned
    /\ Range(req.exclude_product_ids) \cap EligibleIds # {}
    /\ result # <<>>
    /\ Len(result) < req.limit

\* C3: never more than `limit` products are returned.
C3_QuotaBound == Returned => Len(result) <= req.limit

\* a full list, cut from a catalog that had more to offer
C3_Witness ==
    /\ Returned
    /\ Len(result) = req.limit
    /\ Cardinality(EligibleIds \ Range(req.exclude_product_ids)) > req.limit

\* C4: with at least `limit` eligible products outside the caller's
\* exclusions (and no store failure), exactly `limit` products are returned.
C4_FillsQuota ==
    (/\ Returned
     /\ failed = {}
     /\ Cardinality(EligibleIds \ Range(req.exclude_product_ids)) >= req.limit)
        => Len(result) = req.limit

\* the popularity score in tenths, written out
Score(p) == p.trending_score * 10 + p.purchase_count * 100 + p.view_count

\* C5: an anonymous request runs the trending strategy alone, with the
\* caller's limit and exclusions; the output is that strategy's list, in
\* non-increasing order of popularity score.
C5_AnonymousIsTrending ==
    (Returned /\ req.user_id = NoUser) =>
        /\ invoked = <<[name |-> "trending", limit |-> req.limit,
                        exclude_product_ids |-> req.exclude_product_ids]>>
        /\ result = contributed["trending"]
        /\ failed = {} =>
              result = get_trending_products(req.limit, req.exclude_product_ids)
        /\ \A i, j \in 1..Len(result) : i < j => Score(result[i]) >= Score(result[j])

\* an anonymous list in which the ranking moved a later row to the front
C5_Witness ==
    /\ Returned
    /\ req.user_id = NoUser
    /\ Len(result) >= 2
    /\ \E i \in 1..(Len(result) - 1) :
          /\ Score(result[i]) > Score(result[i + 1])
          /\ result[i].id > result[i + 1].id

\* C6: the output is the concatenation of the strategies' lists in the order
\* purchase-history, cart, browsing, collaborative, trending; so every
\* purchase-history candidate precedes every cart-based candidate.
C6_PriorityOrder ==
    Returned =>
        /\ result = contributed["purchase"] \o contributed["cart"]
                        \o contributed["browse"] \o contributed["collab"]
                        \o contributed["trending"]
        /\ \A i, j \in 1..Len(result) :
              (/\ result[i] \in Range(contributed["purchase"])
               /\ result[j] \in Range(contributed["cart"])) => i < j

\* both the purchase-history and the cart strategy contributed
C6_Witness ==
    /\ Returned
    /\ contributed["purchase"] # <<>>
    /\ contributed["cart"] # <<>>

\* C7: a strategy whose store query fails contributes nothing, the chain
\* goes on with the next strategy, what was accumulated is kept, and the
\* request returns.
C7_FailureIsolated ==
    /\ pc # "raised"
    /\ Returned =>
          LET first == IF req.user_id # NoUser THEN 1 ELSE 5
              last == first + Len(invoked) - 1
          IN  /\ \A n \in failed : contributed[n] = <<>>
              /\ \A k \in 1..Len(invoked) : invoked[k].name = Chain[first + k - 1]
              /\ last = Len(Chain) \/ Len(recommendations) >= req.limit
              /\ \A n \in DOMAIN contributed :
                    Range(contributed[n]) \subseteq Range(result)

\* the cart strategy failed between two strategies that contributed
C7_Witness ==
    /\ Returned
    /\ "cart" \in failed
    /\ contributed["purchase"] # <<>>
    /\ contributed["trending"] # <<>>

\* C8: every returned product is a catalog row that is active and in stock.
C8_OnlyEligible ==
    Returned =>
        \A i \in 1..Len(result) :
            /\ result[i] \in Range(products)
            /\ result[i].is_active = TRUE
            /\ result[i].stock_quantity > 0

\* an under-filled list although the catalog has a row that is not eligible
\* and not excluded
C8_Witness ==
    /\ Returned
    /\ req.user_id # NoUser
    /\ result # <<>>
    /\ Len(result) < req.limit
    /\ (ProductIds \ EligibleIds) \ Range(req.exclude_product_ids) # {}

\* the steps of the three read-only operations
RecommenderStep ==
    \/ CallPersonalized
    \/ RunPurchaseHistory
    \/ RunCartBased
    \/ RunBrowsingHistory
    \/ RunCollaborative
    \/ RunTrending
    \/ ReturnRecommendations
    \/ CallSimilar
    \/ CallFrequentlyBoughtTogether

\* C9: no step of get_personalized_recommendations, get_similar_products or
\* get_frequently_bought_together changes a table.
C9_ReadOnly == [][RecommenderStep => UNCHANGED store]_vars

\* a request served from a store that still holds what it held
C9_Witness ==
    /\ Returned
    /\ contributed["trending"] # <<>>
    /\ contributed["collab"] # <<>>

----------------------------------------------------------------------------
(* Properties of get_similar_products *)

SimilarReturned == pc = "done" /\ req.op = "similar"

SourceRows == {p \in Range(products) : p.id = req.product_id}

\* C10: get_similar_products returns at most `limit` products, each active,
\* in stock, in the source's category, priced within [0.7p, 1.3p], never the
\* source itself, in non-increasing purchase_count order; and nothing when
\* the source does not exist or has no category.
C10_SimilarProducts ==
    SimilarReturned =>
        /\ Len(result) <= req.limit
        /\ (SourceRows = {} \/ \A src \in SourceRows : src.category = NoCategory)
              => result = <<>>
        /\ \A i \in 1..Len(result) : \A src \in SourceRows :
              /\ result[i] \in Range(products)
              /\ result[i].is_active = TRUE
              /\ result[i].stock_quantity > 0
              /\ result[i].category = src.category
              /\ 10 * result[i].price >= 7 * src.price
              /\ 10 * result[i].price <= 13 * src.price
              /\ result[i].id # req.product_id
        /\ \A i, j \in 1..Len(result) :
              i < j => result[i].purchase_count >= result[j].purchase_count

\* two products returned for a source priced 100.00, the one with more
\* purchases first although it is the later row, one of them priced on the
\* lower edge 70.00
C10_Witness ==
    /\ SimilarReturned
    /\ \E src \in SourceRows : src.price = 10000
    /\ Len(result) = 2
    /\ result[1].purchase_count > result[2].purchase_count
    /\ result[1].id > result[2].id
    /\ \E i \in 1..2 : result[i].price = 7000

----------------------------------------------------------------------------
(* Properties of get_frequently_bought_together *)

FbtReturned == pc = "done" /\ req.op = "fbt"

\* the rows of one orientation that hold `product_id` on side `own`
AssocRowsOf(product_id, own) ==
    {i \in 1..Len(product_associations) :
        product_associations[i][own] = product_id}

\* fewer than `limit` rows of the orientation have a higher count than row i
AmongHighest(i, own, limit) ==
    Cardinality({j \in AssocRowsOf(product_associations[i][own], own) :
                    product_associations[j].association_count
                        > product_associations[i].association_count}) < limit

\* C11: get_frequently_bought_together returns at most `limit` products, no
\* id twice, each one the other side of an association row that holds the
\* given product as product_a_id or product_b_id and is among the `limit`
\* rows of highest association_count of its orientation, and each one
\* active and in stock.
C11_FrequentlyBoughtTogether ==
    FbtReturned =>
        /\ Len(result) <= req.limit
        /\ \A i, j \in 1..Len(result) : i # j => result[i].id # result[j].id
        /\ \A i \in 1..Len(result) :
              /\ result[i] \in Range(products)
              /\ result[i].is_active = TRUE
              /\ result[i].stock_quantity > 0
              /\ \/ \E k \in AssocRowsOf(req.product_id, "product_a_id") :
                       /\ product_associations[k].product_b_id = result[i].id
                       /\ AmongHighest(k, "product_a_id", req.limit)
                 \/ \E k \in AssocRowsOf(req.product_id, "product_b_id") :
                       /\ product_associations[k].product_a_id = result[i].id
                       /\ AmongHighest(k, "product_b_id", req.limit)

\* a full list of two partners, one known from a forward row only and one
\* from a reverse row only, while a third association row was cut off
C11_Witness ==
    /\ FbtReturned
    /\ req.limit = 2
    /\ Len(result) = 2
    /\ \E i, j \in 1..2 :
          /\ \E k \in AssocRowsOf(req.product_id, "product_a_id") :
                product_associations[k].product_b_id = result[i].id
          /\ \A k \in AssocRowsOf(req.product_id, "product_b_id") :
                product_associations[k].product_a_id # result[i].id
          /\ \E k \in AssocRowsOf(req.product_id, "product_b_id") :
                product_associations[k].product_a_id = result[j].id
          /\ \A k \in AssocRowsOf(req.product_id, "product_a_id") :
                product_associations[k].product_b_id # result[j].id
    /\ Len(product_associations) = MaxAssoc

----------------------------------------------------------------------------
(* Properties of track_product_view *)

\* track_product_view has handed control back to the route
TrackReturned(t) == tpc[t] \in {"route", "done"}

Did(t, step) == \E k \in 1..Len(steps[t]) : steps[t][k] = step

\* C12: when the view event was recorded but the increment of view_count
\* failed (the RPC failed and the fetch-and-update fallback failed too), the
\* request still reports success: track_product_view returns True and the
\* route does not answer with an error.
C12_IncrementBestEffort ==
    \A t \in Trackers :
        (/\ tpc[t] = "done"
         /\ Did(t, "insert_ok")
         /\ Did(t, "rpc_failed")
         /\ Did(t, "fetch_failed") \/ Did(t, "update_failed"))
            => /\ success[t] = "True"
               /\ response[t] = "SuccessResponse"

\* C13: track_product_view never raises; for a product that does not exist,
\* and on any store failure while the view is recorded, it returns False.
C13_NeverRaises ==
    \A t \in Trackers :
        TrackReturned(t) =>
            /\ success[t] \in {"True", "False"}
            /\ (treq[t].product_id \in MissingIds \/ Did(t, "insert_failed"))
                  => success[t] = "False"

\* one request for a product that does not exist and one whose insert the
\* store refused have both been answered, while the catalog is untouched
C13_Witness ==
    \E t, u \in Trackers :
        /\ tpc[t] = "done" /\ tpc[u] = "done"
        /\ treq[t].product_id \in MissingIds
        /\ treq[u].product_id \notin MissingIds
        /\ Did(u, "insert_failed")
        /\ success[t] = "False" /\ success[u] = "False"
        /\ product_views = <<>>

----------------------------------------------------------------------------
(* Properties of the single strategies *)

\* strategy `name` has answered its caller
Answered(name) == pc = "done" /\ req.op = name

\* ids of the products in the user's completed orders
PurchasedIds ==
    {it.product_id : it \in
        {x \in Range(order_items) :
            \E o \in Range(orders) : /\ o.id = x.order_id
                                     /\ o.user_id = req.user_id
                                     /\ o.payment_status = "completed"}}

\* eligible rows in the categories of the products with the given ids
EligibleInCategoriesOf(ids) ==
    {p \in Range(products) :
        /\ p.is_active = TRUE
        /\ p.stock_quantity > 0
        /\ p.category # NoCategory
        /\ \E q \in Range(products) : q.id \in ids /\ q.category = p.category}

\* three eligible products of one category with purchase_count 5, 2 and 8,
\* one of them the only product the user purchased; limit 2
ScenarioA ==
    /\ Answered("purchase")
    /\ failed = {}
    /\ req.limit = 2
    /\ Cardinality(PurchasedIds) = 1
    /\ Cardinality(EligibleInCategoriesOf(PurchasedIds)) = 3
    /\ {p.purchase_count : p \in EligibleInCategoriesOf(PurchasedIds)} = {5, 2, 8}
    /\ \E p \in EligibleInCategoriesOf(PurchasedIds) : p.id \in PurchasedIds
    /\ \A p \in EligibleInCategoriesOf(PurchasedIds) :
          p.id \in Range(req.exclude_product_ids) => p.id \in PurchasedIds

\* C14: the purchase-history strategy returns its products in non-increasing
\* purchase_count order and never one the user purchased in a completed
\* order; in scenario A it returns the two products the user has not
\* purchased, the one with the higher purchase_count first.
C14_PurchaseHistoryRanked ==
    Answered("purchase") =>
        /\ \A i, j \in 1..Len(result) :
              i < j => result[i].purchase_count >= result[j].purchase_count
        /\ \A i \in 1..Len(result) : result[i].id \notin PurchasedIds
        /\ ScenarioA =>
              /\ Len(result) = 2
              /\ {result[1], result[2]} =
                    {p \in EligibleInCategoriesOf(PurchasedIds) :
                        p.id \notin PurchasedIds}
              /\ result[1].purchase_count > result[2].purchase_count

\* scenario A with P1 the product of purchase_count 2: the answer is
\* [count 8, count 5], the count-8 product being the later catalog row
C14_Witness ==
    /\ ScenarioA
    /\ \E p \in Range(products) : p.id \in PurchasedIds /\ p.purchase_count = 2
    /\ result[1].purchase_count = 8
    /\ result[2].purchase_count = 5
    /\ result[1].id > result[2].id

\* position of a row in the order in which the catalog returns its rows
RowIndex(p) == CHOOSE i \in 1..Len(products) : products[i].id = p.id

\* rows of equal `key` stand in catalog order
TiesInOrder(s, key) ==
    \A i, j \in 1..Len(s) :
        (i < j /\ s[i][key] = s[j][key]) => RowIndex(s[i]) < RowIndex(s[j])

\* anonymous request, limit 3, five eligible products with scores
\* [12.1, 30.0, 5.5, 30.0, 8.0]
ScenarioB ==
    /\ Returned
    /\ req.user_id = NoUser
    /\ req.limit = 3
    /\ req.exclude_product_ids = <<>>
    /\ failed = {}
    /\ [i \in 1..Len(products) |-> Score(products[i])] = <<121, 300, 55, 300, 80>>
    /\ \A i \in 1..Len(products) :
          products[i].is_active = TRUE /\ products[i].stock_quantity > 0

\* C15: in every ranked strategy two candidates of equal ranking score keep
\* the order in which the catalog returned them; in scenario B the output
\* is the first 30.0 product, the second 30.0 product, the 12.1 product.
C15_StableTies ==
    /\ TiesInOrder(contributed["purchase"], "purchase_count")
    /\ TiesInOrder(contributed["cart"], "purchase_count")
    /\ TiesInOrder(contributed["browse"], "view_count")
    /\ \A i, j \in 1..Len(contributed["trending"]) :
          (i < j /\ Score(contributed["trending"][i])
                       = Score(contributed["trending"][j]))
             => RowIndex(contributed["trending"][i])
                   < RowIndex(contributed["trending"][j])
    /\ ScenarioB => result = <<products[2], products[4], products[1]>>

\* scenario B answered, the two 30.0 products in front in catalog order
C15_Witness ==
    /\ ScenarioB
    /\ Len(result) = 3
    /\ Score(result[1]) = Score(result[2])
    /\ RowIndex(result[1]) < RowIndex(result[2])
    /\ RowIndex(result[3]) < RowIndex(result[1])

\* C16: each of the five strategies, called with quota q and exclusion list
\* X, returns at most q products and none whose id is in X.
C16_StrategyContract ==
    \A name \in Range(Chain) :
        Answered(name) =>
            /\ Len(result) <= req.limit
            /\ \A i \in 1..Len(result) :
                  result[i].id \notin Range(req.exclude_product_ids)

\* the trending strategy filled its quota although an excluded eligible
\* product outscores everything it returned
C16_Witness ==
    /\ Answered("trending")
    /\ Len(result) = req.limit
    /\ \E p \in Range(products) :
          /\ p.is_active = TRUE /\ p.stock_quantity > 0
          /\ p.id \in Range(req.exclude_product_ids)
          /\ Score(p) > Score(result[1])
    /\ \E p \in Range(products) :
          /\ p.is_active = TRUE /\ p.stock_quantity > 0
          /\ p.id \notin Range(req.exclude_product_ids)
          /\ p \notin Range(result)

\* the products the purchase-history strategy may choose from: eligible, in
\* a category of a purchased product, neither purchased nor excluded
PurchasePool ==
    {p \in EligibleInCategoriesOf(PurchasedIds) :
        /\ p.id \notin PurchasedIds
        /\ p.id \notin Range(req.exclude_product_ids)}

\* C17: the purchase-history strategy with quota q returns the q products
\* of highest purchase_count among all eligible products of the purchased
\* categories that are neither purchased nor excluded: no such product that
\* is left out has a strictly higher purchase_count than a returned one, and
\* fewer than q are returned only if fewer than q exist.
C17_TopByPurchaseCount ==
    (Answered("purchase") /\ failed = {}) =>
        /\ \A p \in PurchasePool \ Range(result) :
              \A i \in 1..Len(result) :
                  p.purchase_count <= result[i].purchase_count
        /\ Len(result) < req.limit => Cardinality(PurchasePool) < req.limit

\* the products the trending strategy may choose from
TrendingPool ==
    {p \in Range(products) :
        /\ p.is_active = TRUE
        /\ p.stock_quantity > 0
        /\ p.id \notin Range(req.exclude_product_ids)}

\* C18: the trending strategy with quota q and exclusion list X returns the
\* q products of highest popularity score among all active in-stock products
\* outside X: no such product that is left out has a strictly higher score
\* than a returned one.
C18_TopByScore ==
    (Answered("trending") /\ failed = {}) =>
        \A p \in TrendingPool \ Range(result) :
            \A i \in 1..Len(result) : Score(p) <= Score(result[i])

\* ids the collaborative strategy must not return
CollabExcluded == PurchasedIds \cup Range(req.exclude_product_ids)

\* association rows with a purchased product on side `own`
PurchasedRows(own) ==
    {k \in 1..Len(product_associations) :
        product_associations[k][own] \in PurchasedIds}

\* C19: the collaborative strategy treats associations as symmetric: the
\* other side of every association row with a purchased product on either
\* side is considered as a candidate, so that it is returned when it is an
\* eligible product, neither purchased nor excluded, and the quota is not
\* used up; also when rows exist in both orientations.
C19_SymmetricAssociations ==
    (Answered("collab") /\ failed = {} /\ Len(result) < req.limit) =>
        /\ \A k \in PurchasedRows("product_a_id") :
              LET other == product_associations[k].product_b_id
              IN  (other \in EligibleIds \ CollabExcluded)
                      => other \in Range(Ids(result))
        /\ \A k \in PurchasedRows("product_b_id") :
              LET other == product_associations[k].product_a_id
              IN  (other \in EligibleIds \ CollabExcluded)
                      => other \in Range(Ids(result))

\* a reverse row that the reverse query returns whatever the order of equal
\* counts: fewer than limit*2 other reverse rows have its count or more
SurelyFetched(k, limit) ==
    Cardinality({j \in PurchasedRows("product_b_id") \ {k} :
                    product_associations[j].association_count
                        >= product_associations[k].association_count})
        < limit * 2

\* the candidates of the reverse lookup that are left after the exclusions
ReverseCandidates ==
    {product_associations[k].product_a_id :
        k \in {j \in PurchasedRows("product_b_id") :
                  SurelyFetched(j, req.limit)}} \ CollabExcluded

\* C20: when no association row has a purchased product as product_a_id,
\* the rows with a purchased product as product_b_id are looked up and their
\* product_a_id values are the candidates; the strategy returns an empty
\* list without candidates only if there is no such row either or every
\* candidate id is purchased or excluded.
C20_ReverseFallback ==
    (/\ Answered("collab")
     /\ failed = {}
     /\ PurchasedIds # {}
     /\ PurchasedRows("product_a_id") = {})
        => /\ \A i \in 1..Len(result) :
                 /\ \E k \in PurchasedRows("product_b_id") :
                       product_associations[k].product_a_id = result[i].id
                 /\ result[i].id \notin CollabExcluded
           /\ Len(result) < req.limit =>
                 \A id \in ReverseCandidates \cap EligibleIds :
                     id \in Range(Ids(result))
           /\ result = <<>> =>
                 \/ PurchasedRows("product_b_id") = {}
                 \/ ReverseCandidates = {}
                 \/ ReverseCandidates \cap EligibleIds = {}

\* no forward row, one reverse row: its product_a_id is returned
C20_Witness ==
    /\ Answered("collab")
    /\ failed = {}
    /\ PurchasedRows("product_a_id") = {}
    /\ PurchasedRows("product_b_id") # {}
    /\ result # <<>>
    /\ \A i \in 1..Len(result) : result[i].id \in ReverseCandidates

\* association rows that link a purchased product with product `id`
LinkingRows(id) ==
    {k \in 1..Len(product_associations) :
        \/ /\ product_associations[k].product_a_id \in PurchasedIds
           /\ product_associations[k].product_b_id = id
        \/ /\ product_associations[k].product_b_id \in PurchasedIds
           /\ product_associations[k].product_a_id = id}

\* the highest association_count among the rows that produce `id`
AssocCountOf(id) ==
    LET counts == {product_associations[k].association_count :
                      k \in LinkingRows(id)}
    IN  IF counts = {} THEN 0
        ELSE CHOOSE n \in counts : \A m \in counts : m <= n

\* C21: the products returned by the collaborative strategy stand in
\* non-increasing order of the association_count of the association that
\* produced them, and when there are more candidates than the quota the ones
\* returned are those of highest association_count.
C21_RankedByAssociation ==
    (Answered("collab") /\ failed = {}) =>
        /\ \A i, j \in 1..Len(result) :
              i < j => AssocCountOf(result[i].id) >= AssocCountOf(result[j].id)
        /\ \A id \in EligibleIds \ CollabExcluded :
              (LinkingRows(id) # {} /\ id \notin Range(Ids(result)))
                 => \A i \in 1..Len(result) :
                       AssocCountOf(id) <= AssocCountOf(result[i].id)

----------------------------------------------------------------------------
(* Properties of the aggregator's control flow *)

ChainPos(name) == CHOOSE i \in 1..Len(Chain) : Chain[i] = name

\* what the strategies in front of position n have contributed
AccumulatedBefore(n) ==
    LET c(i) == IF i < n THEN contributed[Chain[i]] ELSE <<>>
    IN  c(1) \o c(2) \o c(3) \o c(4)

InvokedNames == {invoked[k].name : k \in 1..Len(invoked)}

\* C22: within one request the strategies are invoked in the order 1 to 5;
\* each one is invoked only while fewer than `limit` candidates have been
\* accumulated, with quota limit - len(accumulated) and with the caller's
\* exclusions followed by the ids of all candidates accumulated so far; the
\* trending strategy is invoked exactly when that quota is > 0, with or
\* without a user_id.
C22_SequentialInvocation ==
    req.op = "personalized" =>
        /\ \A j, k \in 1..Len(invoked) :
              j < k => ChainPos(invoked[j].name) < ChainPos(invoked[k].name)
        /\ \A k \in 1..Len(invoked) :
              LET accumulated == AccumulatedBefore(ChainPos(invoked[k].name))
              IN  /\ Len(accumulated) < req.limit
                  /\ invoked[k].limit = req.limit - Len(accumulated)
                  /\ invoked[k].exclude_product_ids =
                        req.exclude_product_ids \o Ids(accumulated)
        /\ Returned =>
              ("trending" \in InvokedNames
                  <=> req.limit - Len(AccumulatedBefore(Len(Chain))) > 0)

\* a request of a user with caller exclusions in which all five strategies
\* were invoked and the quota shrank twice on the way to the trending one
C22_Witness ==
    /\ Returned
    /\ req.user_id # NoUser
    /\ req.exclude_product_ids # <<>>
    /\ Len(invoked) = Len(Chain)
    /\ Cardinality(Contributors) >= 2
    /\ \E k \in 2..4 : /\ invoked[k].limit < req.limit
                       /\ invoked[k].limit > invoked[Len(Chain)].limit

\* a request of a user that returned without invoking the trending strategy
C22_FullBeforeTrending ==
    /\ Returned
    /\ req.user_id # NoUser
    /\ "trending" \notin InvokedNames

----------------------------------------------------------------------------
(* Properties of interleaved recommendation requests *)

BothReturned == pc = "done" /\ suspended.pc = "done"

\* a step either leaves the waiting request's locals alone or swaps the two
\* requests, and never touches a table or the shared default list
Isolated ==
    /\ UNCHANGED <<store, default_exclude>>
    /\ \/ suspended' = suspended
       \/ suspended' = locals /\ locals' = suspended

\* C23: recommendation requests do not influence each other: two requests
\* with the same arguments and the same store failures return the same
\* list however they are interleaved, no step of a request changes a table
\* or the locals of the other request, and the shared default value of
\* exclude_product_ids is still the empty list after any sequence of steps.
C23_RequestsIndependent ==
    /\ [](default_exclude = <<>>)
    /\ []((BothReturned /\ req = suspended.req /\ failed = suspended.failed)
             => result = suspended.result)
    /\ [][Isolated]_vars

\* two requests with the same arguments were interleaved: the second one
\* was called while the first one had candidates accumulated, and both came
\* back with the same two-strategy list
C23_Witness ==
    /\ BothReturned
    /\ req = suspended.req
    /\ req.exclude_product_ids = default_exclude
    /\ req.user_id # NoUser
    /\ failed = {} /\ suspended.failed = {}
    /\ Cardinality(Contributors) >= 2
    /\ result = suspended.result

----------------------------------------------------------------------------
(* Properties of the cart-based strategy *)

\* ids of the products in the user's cart
CartIds ==
    {c.product_id : c \in {x \in Range(cart_items) : x.user_id = req.user_id}}

\* C24: the cart-based strategy never returns a product that is in the
\* user's cart, and returns an empty list when the cart is empty or no
\* product in the cart has a category.
C24_CartBased ==
    Answered("cart") =>
        /\ \A i \in 1..Len(result) : result[i].id \notin CartIds
        /\ CartIds = {} => result = <<>>
        /\ (\A p \in Range(products) : p.id \in CartIds => p.category = NoCategory)
              => result = <<>>

\* the only product in the cart has no category: nothing is returned
\* although eligible products with a category exist and no query failed
C24_Witness ==
    /\ Answered("cart")
    /\ failed = {}
    /\ CartIds # {}
    /\ \A p \in Range(products) : p.id \in CartIds => p.category = NoCategory
    /\ \E p \in Range(products) :
          /\ p.is_active = TRUE /\ p.stock_quantity > 0
          /\ p.category # NoCategory
          /\ p.id \notin Range(req.exclude_product_ids)
    /\ result = <<>>

\* a product of the cart's category is returned, the cart's product is not
C24_CartProductLeftOut ==
    /\ Answered("cart")
    /\ result # <<>>
    /\ \E p \in Range(products) :
          /\ p.id \in CartIds
          /\ p.is_active = TRUE /\ p.stock_quantity > 0
          /\ p.purchase_count > result[1].purchase_count

----------------------------------------------------------------------------
(* Properties of view_count *)

\* the catalog as it was before any view was tracked: the layout that
\* agrees with the catalog on everything but view_count
InitialCatalog ==
    CHOOSE layout \in CatalogLayouts :
        /\ Len(layout) = Len(products)
        /\ \A i \in 1..Len(products) :
              [layout[i] EXCEPT !.view_count = 0]
                  = [products[i] EXCEPT !.view_count = 0]

\* the calls for product `id` that returned True
SuccessfulCalls(id) ==
    {t \in Trackers : /\ tpc[t] \in {"route", "done"}
                      /\ success[t] = "True"
                      /\ treq[t].product_id = id}

NoCallInFlight == \A t \in Trackers : tpc[t] \in {"idle", "route", "done"}

\* C25: each successful track_product_view call increases the product's
\* view_count by exactly 1: after N successful calls for a product, in any
\* interleaving and also on the fetch-and-update path, its view_count has
\* grown by exactly N.
C25_ViewCountExact ==
    NoCallInFlight =>
        \A i \in 1..Len(products) :
            products[i].view_count =
                InitialCatalog[i].view_count
                    + Cardinality(SuccessfulCalls(products[i].id))

\* ---------------------------------------------------------------------
\* Orders: create_order, one store call per step.  Prices and totals are
\* in cents.  Each shopper places at most one order; the calls of different
\* shoppers interleave between store calls, as they do when the service
\* runs in more than one worker over the one store.
\* ---------------------------------------------------------------------

MaxStock == 3          \* the largest stock_quantity of a product on sale
MaxQuantity == 2       \* the largest quantity of a cart row

StockRow(id, price, stock_quantity, is_active) ==
    [Row(id, "soap", price, "ok", PurchaseSignal(0))
        EXCEPT !.stock_quantity = stock_quantity, !.is_active = is_active]

CartRow(user_id, product_id, quantity) ==
    [user_id |-> user_id, product_id |-> product_id, quantity |-> quantity]

OrderRow(id, user_id, total_amount) ==
    [id |-> id, user_id |-> user_id, total_amount |-> total_amount,
     status |-> "pending", payment_status |-> "pending",
     payment_reference |-> NoReference]

OrderItemRow(order_id, item) ==
    [order_id |-> order_id, product_id |-> item.product_id,
     quantity |-> item.quantity, price_at_time |-> item.price_at_time]

ProductRow(product_id) ==
    products[CHOOSE i \in 1..Len(products) : products[i].id = product_id]

\* the cart rows of the user, each with its product row embedded
cart_response(user_id) ==
    LET rows == SelectSeq(cart_items, LAMBDA c : c.user_id = user_id)
    IN  [i \in 1..Len(rows) |->
            [cart_item |-> rows[i], products |-> ProductRow(rows[i].product_id)]]

not_available(product) == ~product.is_active

insufficient_stock_OffByOne(product, cart_item) ==
    product.stock_quantity + 1 < cart_item.quantity

insufficient_stock(product, cart_item) ==
    product.stock_quantity < cart_item.quantity

item_total_IgnoresQuantity(product, cart_item) == product.price

item_total(product, cart_item) == product.price * cart_item.quantity

\* the 400 cases: an empty cart, or a row the validation loop stops at
bad_request(data) ==
    \/ Len(data) = 0
    \/ \E i \in 1..Len(data) :
          \/ not_available(data[i].products)
          \/ insufficient_stock(data[i].products, data[i].cart_item)

order_items_of(data) ==
    [i \in 1..Len(data) |->
        [product_id |-> data[i].products.id,
         quantity |-> data[i].cart_item.quantity,
         price_at_time |-> data[i].products.price,
         product |-> data[i].products]]

total_of(data) ==
    LET total_amount[n \in 0..Len(data)] ==
            IF n = 0 THEN 0
            ELSE total_amount[n - 1]
                 + item_total(data[n].products, data[n].cart_item)
    IN  total_amount[Len(data)]

\* what a step of create_order leaves alone besides the tables
order_frame ==
    <<recommender, tracker, gateway, initializing, answered, before,
      product_views, product_associations>>

Raise(u, status_code) ==
    checkout' = [checkout EXCEPT ![u].pc = "done", ![u].response = status_code]

\* lines 41-80: read the cart, validate every row, add up the total
CreateOrder(u) ==
    /\ checkout[u].pc = "idle"
    /\ \E fail \in BOOLEAN :
         LET data == cart_response(u)
         IN  IF fail THEN Raise(u, "500")
             ELSE IF bad_request(data) THEN Raise(u, "400")
             ELSE checkout' = [checkout EXCEPT
                      ![u].pc = "insert_order",
                      ![u].order_items_data = order_items_of(data),
                      ![u].total_amount = total_of(data)]
    /\ UNCHANGED <<store, order_frame>>

\* lines 83-101
InsertOrder(u) ==
    /\ checkout[u].pc = "insert_order"
    /\ \E fail \in BOOLEAN :
         IF fail THEN Raise(u, "500") /\ UNCHANGED orders
         ELSE LET order_id == Len(orders) + 1
              IN  /\ orders' = Append(orders,
                          OrderRow(order_id, u, checkout[u].total_amount))
                  /\ checkout' = [checkout EXCEPT ![u].pc = "insert_item",
                                                  ![u].order_id = order_id]
    /\ UNCHANGED <<products, order_items, cart_items, order_frame>>

\* lines 104-113
InsertOrderItem(u) ==
    /\ checkout[u].pc = "insert_item"
    /\ \E fail \in BOOLEAN :
         IF fail THEN Raise(u, "500") /\ UNCHANGED order_items
         ELSE /\ order_items' = Append(order_items,
                     OrderItemRow(checkout[u].order_id,
                         checkout[u].order_items_data[checkout[u].i]))
              /\ checkout' = [checkout EXCEPT ![u].pc = "update_stock"]
    /\ UNCHANGED <<products, orders, cart_items, order_frame>>

\* lines 116-120: the new stock is worked out from the product row read
\* with the cart
UpdateStock(u) ==
    /\ checkout[u].pc = "update_stock"
    /\ \E fail \in BOOLEAN :
         IF fail THEN Raise(u, "500") /\ UNCHANGED products
         ELSE LET item == checkout[u].order_items_data[checkout[u].i]
                  new_stock == item.product.stock_quantity - item.quantity
                  more == checkout[u].i < Len(checkout[u].order_items_data)
              IN  /\ products' = [k \in 1..Len(products) |->
                        IF products[k].id = item.product_id
                        THEN [products[k] EXCEPT !.stock_quantity = new_stock]
                        ELSE products[k]]
                  /\ checkout' = [checkout EXCEPT
                        ![u].pc = IF more THEN "insert_item" ELSE "clear_cart",
                        ![u].i = checkout[u].i + 1]
    /\ UNCHANGED <<orders, order_items, cart_items, order_frame>>

\* line 123
ClearCart(u) ==
    /\ checkout[u].pc = "clear_cart"
    /\ \E fail \in BOOLEAN :
         IF fail THEN Raise(u, "500") /\ UNCHANGED cart_items
         ELSE /\ cart_items' = SelectSeq(cart_items, LAMBDA c : c.user_id # u)
              /\ checkout' = [checkout EXCEPT ![u].pc = "fetch_order"]
    /\ UNCHANGED <<products, orders, order_items, order_frame>>

\* line 128 and the route: the created order goes back with status 201
ReturnOrder(u) ==
    /\ checkout[u].pc = "fetch_order"
    /\ \E fail \in BOOLEAN : Raise(u, IF fail THEN "500" ELSE "201")
    /\ UNCHANGED <<store, order_frame>>

\* two products; product 2 may be inactive.  The first shopper's cart is
\* empty or holds product 1, alone or next to product 2; the second
\* shopper's cart holds one of the two products.
OrderCatalogs ==
    { <<StockRow(1, 250, s, TRUE), StockRow(2, 400, 1, a)>> :
        s \in 1..MaxStock, a \in BOOLEAN }

FirstCarts ==
    {<<>>}
    \cup { <<CartRow("u1", 1, q)>> : q \in 1..MaxQuantity }
    \cup { <<CartRow("u1", 2, 1), CartRow("u1", 1, q)>> : q \in 1..MaxQuantity }
    \cup { <<CartRow("u1", 1, q), CartRow("u1", 2, 1)>> : q \in 1..MaxQuantity }

SecondCarts ==
    { <<CartRow("u2", 1, q)>> : q \in 1..MaxQuantity }
    \cup { <<CartRow("u2", 2, 1)>> }

InitOrders ==
    /\ products \in OrderCatalogs
    /\ \E first \in FirstCarts, second \in SecondCarts :
          cart_items = first \o second
    /\ orders = <<>>
    /\ order_items = <<>>
    /\ product_views = <<>>
    /\ product_associations = <<>>
    /\ InitRequest

NextOrders ==
    \E u \in Shoppers :
        \/ CreateOrder(u)
        \/ InsertOrder(u)
        \/ InsertOrderItem(u)
        \/ UpdateStock(u)
        \/ ClearCart(u)
        \/ ReturnOrder(u)

SpecOrders == InitOrders /\ [][NextOrders]_vars

\* ---------------------------------------------------------------------
\* C26..C28: create_order
\* ---------------------------------------------------------------------

CartOf(u) == SelectSeq(cart_items, LAMBDA c : c.user_id = u)

EmptyCart(u) == CartOf(u) = <<>>

InactiveInCart(u) ==
    \E i \in 1..Len(CartOf(u)), k \in 1..Len(products) :
        /\ products[k].id = CartOf(u)[i].product_id
        /\ ~products[k].is_active

OverStock(u) ==
    \E i \in 1..Len(CartOf(u)), k \in 1..Len(products) :
        /\ products[k].id = CartOf(u)[i].product_id
        /\ CartOf(u)[i].quantity > products[k].stock_quantity

\* the step in which the call of u reads and validates the cart, the read
\* itself having worked
Validates(u) ==
    /\ checkout[u].pc = "idle"
    /\ checkout'[u].pc # "idle"
    /\ checkout'[u].response # "500"

OrdersOf(u) == SelectSeq(orders, LAMBDA o : o.user_id = u)

OthersIdle(u) == \A v \in Shoppers \ {u} : checkout[v].pc = "idle"

\* C26: create_order answers 400 exactly when the cart it reads is empty,
\* holds an inactive product or asks for more than the stock; the rejecting
\* step writes nothing and ends the call, so a rejected call leaves no
\* order and no order item of its own, and alone it leaves products and
\* cart as they were.
C26_RejectsBadCart ==
    /\ [][\A u \in Shoppers :
            Validates(u) =>
               /\ (EmptyCart(u) \/ InactiveInCart(u) \/ OverStock(u))
                     <=> checkout'[u].response = "400"
               /\ checkout'[u].response = "400" =>
                     /\ checkout'[u].pc = "done"
                     /\ UNCHANGED store]_vars
    /\ [](\A u \in Shoppers :
            checkout[u].response = "400" =>
               /\ checkout[u].pc = "done"
               /\ OrdersOf(u) = <<>>
               /\ CartOf(u) = SelectSeq(before.cart_items,
                                        LAMBDA c : c.user_id = u)
               /\ OthersIdle(u) =>
                     /\ orders = <<>> /\ order_items = <<>>
                     /\ products = before.products
                     /\ cart_items = before.cart_items)

\* one call rejected for stock, the other for an inactive product, and
\* nothing written
C26_Witness ==
    /\ checkout["u1"].response = "400"
    /\ OverStock("u1") /\ ~InactiveInCart("u1")
    /\ checkout["u2"].response = "400"
    /\ InactiveInCart("u2") /\ ~OverStock("u2")
    /\ orders = <<>> /\ order_items = <<>>
    /\ products = before.products /\ cart_items = before.cart_items

\* a call rejected for its empty cart
C26_EmptyCartRejected ==
    /\ checkout["u1"].response = "400"
    /\ EmptyCart("u1")
    /\ before.cart_items = cart_items

\* the cart of u at the start, and the quantity of a product in it
CartBefore(u) == SelectSeq(before.cart_items, LAMBDA c : c.user_id = u)

QuantityBefore(u, product_id) ==
    LET rows == SelectSeq(CartBefore(u), LAMBDA c : c.product_id = product_id)
    IN  IF rows = <<>> THEN 0 ELSE rows[1].quantity

PriceBefore(product_id) ==
    LET k == CHOOSE k \in 1..Len(before.products) :
                 before.products[k].id = product_id
    IN  before.products[k].price

\* the sum over the products of price * quantity in the cart of u
CartValue(u) ==
    LET value[n \in 0..Len(before.products)] ==
            IF n = 0 THEN 0
            ELSE value[n - 1] + before.products[n].price
                                * QuantityBefore(u, before.products[n].id)
    IN  value[Len(before.products)]

\* C27: when create_order has returned the order (201) and no other call
\* has started, there is one order, of this user, pending and unpaid, whose
\* total_amount is the sum of price * quantity over the cart; order_items
\* holds one row per cart row with its quantity and the product's price;
\* every product's stock is down by the quantity ordered and is otherwise
\* as before; the user's cart is empty and the other carts are untouched.
C27_OrderFromCart ==
    \A u \in Shoppers :
        (checkout[u].response = "201" /\ OthersIdle(u)) =>
            /\ Len(orders) = 1
            /\ orders[1].user_id = u
            /\ orders[1].status = "pending"
            /\ orders[1].payment_status = "pending"
            /\ orders[1].total_amount = CartValue(u)
            /\ Len(order_items) = Len(CartBefore(u))
            /\ \A i \in 1..Len(order_items) :
                  /\ order_items[i].order_id = orders[1].id
                  /\ order_items[i].product_id = CartBefore(u)[i].product_id
                  /\ order_items[i].quantity = CartBefore(u)[i].quantity
                  /\ order_items[i].price_at_time
                        = PriceBefore(CartBefore(u)[i].product_id)
            /\ Len(products) = Len(before.products)
            /\ \A k \in 1..Len(products) :
                  products[k] =
                     [before.products[k] EXCEPT !.stock_quantity =
                         before.products[k].stock_quantity
                         - QuantityBefore(u, before.products[k].id)]
            /\ CartOf(u) = <<>>
            /\ \A v \in Shoppers \ {u} : CartOf(v) = CartBefore(v)

\* an order of two products, one of them twice, placed alone
C27_Witness ==
    /\ checkout["u1"].response = "201"
    /\ OthersIdle("u1")
    /\ Len(CartBefore("u1")) = 2
    /\ \E i \in 1..2 : CartBefore("u1")[i].quantity = 2
    /\ Len(order_items) = 2

\* the quantity of a product in all order_items rows
Sold(product_id) ==
    LET sold[n \in 0..Len(order_items)] ==
            IF n = 0 THEN 0
            ELSE sold[n - 1] + IF order_items[n].product_id = product_id
                               THEN order_items[n].quantity ELSE 0
    IN  sold[Len(order_items)]

\* no call is between its first and last store call, and none broke off
NoOrderInFlight ==
    \A u \in Shoppers :
        /\ checkout[u].pc \in {"idle", "done"}
        /\ checkout[u].response # "500"

\* C28: under every interleaving of the two shoppers' calls no stock is
\* negative, and once the calls are over the initial stock of each product
\* is its current stock plus the quantity sold in order_items.
C28_StockConserved ==
    \A k \in 1..Len(products) :
        /\ products[k].stock_quantity >= 0
        /\ NoOrderInFlight =>
              before.products[k].stock_quantity
                 = products[k].stock_quantity + Sold(products[k].id)

\* the half of C28 that holds: stock is never negative
C28_StockNeverNegative ==
    \A k \in 1..Len(products) : products[k].stock_quantity >= 0

\* more sold than there was: both orders returned
C28_Oversold ==
    /\ \A u \in Shoppers : checkout[u].response = "201"
    /\ \E k \in 1..Len(products) :
          Sold(products[k].id) > before.products[k].stock_quantity

\* ---------------------------------------------------------------------
\* Payments: initialize_payment, verify_payment and the webhook.  The
\* gateway keeps one transaction per initialized reference; a reference is
\* the pair of the order id and a part no other reference has.  The
\* customer can pay a transaction once initialize_payment has returned its
\* authorization_url.
\* ---------------------------------------------------------------------

MaxReferences == 2     \* the most transactions the gateway is asked for

Transaction(reference, order_id) ==
    [reference |-> reference, order_id |-> order_id, status |-> "pending",
     returned |-> FALSE]

\* line 43: "ORD-" + the order id + a fresh part
new_reference(order_id) == <<order_id, Len(gateway) + 1>>

OrderIds == {orders[k].id : k \in 1..Len(orders)}

References == {gateway[n].reference : n \in 1..Len(gateway)}

\* a reference the gateway has never seen
UnknownReference == <<NoOrder, 0>>

\* what a step of a payment request leaves alone besides orders
pay_frame ==
    <<recommender, tracker, checkout, before, products, order_items,
      cart_items, product_views, product_associations>>

Respond(status_code) ==
    initializing' = [initializing EXCEPT !.pc = "idle", !.response = status_code]

\* lines 24-43: the order of this user, not yet paid, gets a reference
InitializePayment(order_id, user_id) ==
    /\ initializing.pc = "idle"
    /\ Len(gateway) < MaxReferences
    /\ LET order_response == SelectSeq(orders,
               LAMBDA o : o.id = order_id /\ o.user_id = user_id)
           started == [pc |-> "gateway", order_id |-> order_id,
                       user_id |-> user_id, reference |-> NoReference,
                       response |-> "pending"]
       IN  IF order_response = <<>>
           THEN initializing' = [started EXCEPT !.pc = "idle", !.response = "404"]
           ELSE IF order_response[1].payment_status = "completed"
           THEN initializing' = [started EXCEPT !.pc = "idle", !.response = "400"]
           ELSE initializing' = [started EXCEPT
                                   !.reference = new_reference(order_id)]
    /\ UNCHANGED <<orders, gateway, answered, pay_frame>>

\* lines 61-85: the gateway registers the transaction, or the call fails
GatewayInitialize ==
    /\ initializing.pc = "gateway"
    /\ \E fail \in BOOLEAN :
         IF fail THEN Respond("500") /\ UNCHANGED gateway
         ELSE /\ gateway' = Append(gateway,
                     Transaction(initializing.reference, initializing.order_id))
              /\ initializing' = [initializing EXCEPT !.pc = "update"]
    /\ UNCHANGED <<orders, answered, pay_frame>>

\* lines 88-96: the reference is stored on the order and goes back to the
\* customer with the authorization_url
StoreReference ==
    /\ initializing.pc = "update"
    /\ \E fail \in BOOLEAN :
         IF fail THEN Respond("500") /\ UNCHANGED <<orders, gateway>>
         ELSE /\ orders' = [k \in 1..Len(orders) |->
                   IF orders[k].id = initializing.order_id
                   THEN [orders[k] EXCEPT
                           !.payment_reference = initializing.reference]
                   ELSE orders[k]]
              /\ gateway' = [n \in 1..Len(gateway) |->
                   IF gateway[n].reference = initializing.reference
                   THEN [gateway[n] EXCEPT !.returned = TRUE]
                   ELSE gateway[n]]
              /\ Respond("200")
    /\ UNCHANGED <<answered, pay_frame>>

\* the customer pays, or fails to pay, on the gateway's page
Charge(n) ==
    /\ n \in 1..Len(gateway)
    /\ gateway[n].returned
    /\ gateway[n].status = "pending"
    /\ \E outcome \in {"success", "failed"} :
          gateway' = [gateway EXCEPT ![n].status = outcome]
    /\ UNCHANGED <<orders, initializing, answered, pay_frame>>

\* the one update of lines 161-164 and 207-210
mark_paid_AnyReference(order_id, reference) ==
    [k \in 1..Len(orders) |->
        IF orders[k].id = order_id
        THEN [orders[k] EXCEPT !.payment_status = "completed",
                               !.status = "processing"]
        ELSE orders[k]]

mark_paid(order_id, reference) ==
    [k \in 1..Len(orders) |->
        IF orders[k].id = order_id /\ orders[k].payment_reference = reference
        THEN [orders[k] EXCEPT !.payment_status = "completed",
                               !.status = "processing"]
        ELSE orders[k]]

Serve(op, reference, order_id, reported, status_code) ==
    answered' = [op |-> op, reference |-> reference, order_id |-> order_id,
                 reported |-> reported, response |-> status_code]

\* lines 115-188
VerifyPayment(reference) ==
    /\ \E fail \in BOOLEAN :
         LET found == SelectSeq(gateway, LAMBDA tx : tx.reference = reference)
         IN  IF found = <<>>
             THEN Serve("verify", reference, NoOrder, "none", "400")
                  /\ UNCHANGED orders
             ELSE LET transaction == found[1]
                      order_id == transaction.order_id
                      updated == mark_paid(order_id, reference)
                  IN  IF transaction.status # "success"
                      THEN Serve("verify", reference, order_id,
                                  transaction.status, "failed")
                           /\ UNCHANGED orders
                      ELSE IF fail
                      THEN Serve("verify", reference, order_id,
                                  transaction.status, "500")
                           /\ UNCHANGED orders
                      ELSE IF \A k \in 1..Len(orders) :
                                 ~(/\ orders[k].id = order_id
                                   /\ orders[k].payment_reference = reference)
                      THEN Serve("verify", reference, order_id,
                                  transaction.status, "404")
                           /\ UNCHANGED orders
                      ELSE Serve("verify", reference, order_id,
                                  transaction.status, "success")
                           /\ orders' = updated
    /\ UNCHANGED <<gateway, initializing, pay_frame>>

\* lines 197-218: the payload is whatever was posted
PaystackWebhook(event, reference, order_id) ==
    /\ \E fail \in BOOLEAN :
         IF event = "charge.success" /\ order_id # NoOrder
            /\ reference # NoReference
         THEN IF fail
              THEN Serve("webhook", reference, order_id, event, "error")
                   /\ UNCHANGED orders
              ELSE Serve("webhook", reference, order_id, event, "success")
                   /\ orders' = mark_paid(order_id, reference)
         ELSE Serve("webhook", reference, order_id, event, "success")
              /\ UNCHANGED orders
    /\ UNCHANGED <<gateway, initializing, pay_frame>>

\* one order, or one order of each shopper, as create_order leaves them
InitPayments ==
    /\ orders \in { <<OrderRow(1, "u1", 500)>>,
                    <<OrderRow(1, "u1", 500), OrderRow(2, "u2", 400)>> }
    /\ products = <<StockRow(1, 250, 1, TRUE), StockRow(2, 400, 1, TRUE)>>
    /\ order_items = <<>>
    /\ cart_items = <<>>
    /\ product_views = <<>>
    /\ product_associations = <<>>
    /\ InitRequest

NextPayments ==
    \/ \E order_id \in OrderIds \cup {Len(orders) + 1}, user_id \in Shoppers :
          InitializePayment(order_id, user_id)
    \/ GatewayInitialize
    \/ StoreReference
    \/ \E n \in 1..MaxReferences : Charge(n)
    \/ \E reference \in References \cup {UnknownReference} :
          VerifyPayment(reference)
    \/ \E event \in {"charge.success", "charge.failed"},
          reference \in References \cup {NoReference},
          order_id \in OrderIds \cup {NoOrder} :
          PaystackWebhook(event, reference, order_id)

SpecPayments == InitPayments /\ [][NextPayments]_vars

\* ---------------------------------------------------------------------
\* C29, C30: payments
\* ---------------------------------------------------------------------

\* the step that turns the payment_status of row k to completed
BecomesPaid(k) ==
    /\ orders[k].payment_status # "completed"
    /\ orders'[k].payment_status = "completed"

C29_WebhookMismatch ==
    /\ answered.op = "webhook"
    /\ answered.reported = "charge.success"
    /\ answered.response = "success"
    /\ \E k \in 1..Len(orders) :
          /\ orders[k].id = answered.order_id
          /\ orders[k].payment_reference # NoReference
          /\ orders[k].payment_reference # answered.reference
          /\ answered.reference # NoReference
          /\ orders[k].payment_status = "pending"
    /\ \A k \in 1..Len(orders) : orders[k].payment_status = "pending"

\* the step in which initialize_payment is called for row k by its owner
InitializesFor(k) ==
    /\ initializing.pc = "idle"
    /\ initializing' # initializing
    /\ initializing'.order_id = orders[k].id
    /\ initializing'.user_id = orders[k].user_id

\* the last request was a verify_payment of a reference the gateway
\* reported as paid, and the store did not fail
VerifiedPaid ==
    /\ answered.op = "verify"
    /\ answered.reported = "success"
    /\ answered.response # "500"

\* C30: after verify_payment of a reference that initialize_payment issued
\* and the gateway reports as paid, the order the reference was issued for
\* has payment_status completed, whatever initialize_payment calls came
\* before; and initialize_payment for an order already completed answers
\* 400 and leaves the orders as they are.
C30_PaidReferenceVerifies ==
    /\ [](VerifiedPaid =>
            \E k \in 1..Len(orders) :
                /\ orders[k].id = answered.order_id
                /\ orders[k].payment_status = "completed")
    /\ [][\A k \in 1..Len(orders) :
            (InitializesFor(k) /\ orders[k].payment_status = "completed") =>
                /\ initializing'.response = "400"
                /\ initializing'.pc = "idle"
                /\ orders' = orders]_vars

\* the half of C30 that holds: a paid order is not initialized again
C30_PaidOrderRejected ==
    [][\A k \in 1..Len(orders) :
          (InitializesFor(k) /\ orders[k].payment_status = "completed") =>
              /\ initializing'.response = "400"
              /\ initializing'.pc = "idle"
              /\ orders' = orders]_vars

\* the customer paid the first reference, the order carries the second:
\* verify_payment answers 404 and the order stays pending
C30_PaidButPending ==
    /\ VerifiedPaid
    /\ answered.response = "404"
    /\ \E k \in 1..Len(orders) :
          /\ orders[k].id = answered.order_id
          /\ orders[k].payment_status = "pending"
          /\ orders[k].payment_reference # answered.reference
          /\ orders[k].payment_reference # NoReference

\* initialize_payment rejected for an order already paid
C30_RejectedAsPaid ==
    /\ initializing.response = "400"
    /\ \E k \in 1..Len(orders) :
          /\ orders[k].id = initializing.order_id
          /\ orders[k].payment_status = "completed"

====
